---- MODULE Spec2Model ----
(***************************************************************************)
(* Batch annotation pipeline of the Notion automation scripts:             *)
(* record store, eligibility filter, prompt builder, response parser and   *)
(* validator, property codec and update writer.                            *)
(*                                                                         *)
(* Strings are sequences of one-character strings.  JavaScript values are  *)
(* tagged records [t |-> typeof-like tag, v |-> payload].                  *)
(***************************************************************************)
EXTENDS Integers, Sequences, FiniteSets, TLC

VARIABLES
    store,      \* remote database: page id -> page object
    aiModule,   \* which definition of batchAnnotate in utils/ai.ts is linked
    aiMemo,     \* generation service: prompt -> response text already given
    run,        \* number of the current workflow run (1-based)
    pc,         \* position of the run inside run()/batchAnnotate
    fetched,    \* run(): pages returned by getAllPages
    pages,      \* batchAnnotate: pages (the eligible ones)
    names,      \* batchAnnotate: names
    prompt,     \* batchAnnotate: prompt
    response,   \* batchAnnotate: response.text
    parsedData, \* batchAnnotate: parsedData
    i,          \* batchAnnotate: loop index (0-based, as in the code)
    writes,     \* log of the updatePage calls issued
    genCalls,   \* log of the generateContent calls issued (run numbers)
    warned,     \* console.warn about the count mismatch was emitted
    error,      \* error that escaped the run ("none" when there is none)
    ended,      \* log of the runs that have ended: how, and the store then
    notionModule, \* which definition of getAllPages is linked
    chunk,      \* remote: the most records it serves in one query response
    allPages,   \* getAllPages: allPages
    hasMore,    \* getAllPages: hasMore
    startCursor, \* getAllPages: startCursor
    requests,   \* log of the database query requests issued
    edits,      \* log of the changes an external editor made to the store
    films,      \* films workflow: its position, locals and requests
    traversal,  \* getAllBlocks: its call stack and the blocks gathered
    fn,         \* pure-function harness: function under test
    arg,        \* pure-function harness: its arguments
    ret         \* pure-function harness: its result

\* the remote's serving size, the linked getAllPages and its locals
qVars == << notionModule, chunk, allPages, hasMore, startCursor, requests >>

vars == << store, aiModule, aiMemo, run, pc, fetched, pages, names, prompt, response,
           parsedData, i, writes, genCalls, warned, error, ended,
           fn, arg, ret, qVars, edits, films, traversal >>

wfVars == << store, aiModule, aiMemo, run, pc, fetched, pages, names, prompt, response,
             parsedData, i, writes, genCalls, warned, error, ended, qVars,
             edits >>

\* the films workflow is not running
NoFilms == [pc |-> "idle"]

\* getAllBlocks is not running
NoTraversal == [pc |-> "idle"]

(***************************************************************************)
(* Bounds                                                                  *)
(***************************************************************************)
MaxPages == 2       \* records in the database
MaxItems == 2       \* elements of the response array
MaxRuns == 2        \* successive workflow runs
MaxText == 4        \* characters of a codec input string
MaxProps == 2       \* required field names given to hasEmptyProperties
MaxBody == 2        \* tokens of a response body given to the parser
MaxNames == 2       \* names given to buildPrompt
MaxNameLen == 2     \* characters of a name given to buildPrompt
MaxChunk == 2       \* records the remote serves in one query response
MaxEdits == 1       \* changes an external editor makes to the store
MaxFilms == 2       \* records the films workflow has to enrich
MaxResults == 2     \* results of one search of the movie database
MaxBlocks == 3      \* blocks below the page given to getAllBlocks
MaxPubs == 3        \* pubs given to optimizeRoute
MaxCoord == 2       \* largest latitude and longitude on the grid
MaxTodoBlocks == 3  \* blocks of the page a cleanup run works on
MaxCreates == 1     \* events the remote accepts before a run of the generator fails
MaxMeals == 2       \* upcoming meals given to populateHelperDatabase
MaxIngredients == 1 \* ingredients of one upcoming meal
MaxHelperItems == 2 \* items of the shopping helper database
MaxDays == 2        \* pages of the meal planner database before the first run

(***************************************************************************)
(* JavaScript values                                                       *)
(***************************************************************************)
JUndef == [t |-> "undefined"]
JNull == [t |-> "null"]
JStr(s) == [t |-> "string", v |-> s]
JNum(n) == [t |-> "number", v |-> n]
JArr(s) == [t |-> "array", v |-> s]
JObj(f) == [t |-> "object", v |-> f]

\* typeof x
TypeOf(x) ==
    IF x.t \in {"null", "array", "object"} THEN "object" ELSE x.t

\* obj[key] on a plain object
Member(obj, key) ==
    IF key \in DOMAIN obj.v THEN obj.v[key] ELSE JUndef

(***************************************************************************)
(* Strings                                                                 *)
(***************************************************************************)
IsSpace(c) == c \in {" ", "\n"}

RECURSIVE TrimStart(_)
TrimStart(s) ==
    IF s # << >> /\ IsSpace(Head(s)) THEN TrimStart(Tail(s)) ELSE s

RECURSIVE TrimEnd(_)
TrimEnd(s) ==
    IF s # << >> /\ IsSpace(s[Len(s)])
    THEN TrimEnd(SubSeq(s, 1, Len(s) - 1))
    ELSE s

\* String.prototype.trim
Trim(s) == TrimEnd(TrimStart(s))

\* String.prototype.split with a one-character separator
RECURSIVE Split(_, _)
Split(s, sep) ==
    IF \A k \in 1..Len(s) : s[k] # sep
    THEN << s >>
    ELSE LET p == CHOOSE k \in 1..Len(s) :
                     s[k] = sep /\ \A j \in 1..(k - 1) : s[j] # sep
         IN << SubSeq(s, 1, p - 1) >> \o Split(SubSeq(s, p + 1, Len(s)), sep)

\* Array.prototype.map
RECURSIVE Map(_, _)
Map(F(_), s) ==
    IF s = << >> THEN << >> ELSE << F(Head(s)) >> \o Map(F, Tail(s))

\* Array.prototype.filter
RECURSIVE Filter(_, _)
Filter(P(_), s) ==
    IF s = << >> THEN << >>
    ELSE (IF P(Head(s)) THEN << Head(s) >> ELSE << >>) \o Filter(P, Tail(s))

Digit(n) == CASE n = 0 -> "0" [] n = 1 -> "1" [] n = 2 -> "2" [] n = 3 -> "3"
              [] n = 4 -> "4" [] n = 5 -> "5" [] n = 6 -> "6" [] n = 7 -> "7"
              [] n = 8 -> "8" [] n = 9 -> "9"

Digits == {"0", "1", "2", "3", "4", "5", "6", "7", "8", "9"}

DigitVal(c) == CHOOSE n \in 0..9 : Digit(n) = c

\* String(n) for a natural number
RECURSIVE NumToString(_)
NumToString(n) ==
    IF n < 10 THEN << Digit(n) >>
    ELSE NumToString(n \div 10) \o << Digit(n % 10) >>

\* String(value)
String(value) ==
    IF value.t = "number" THEN NumToString(value.v) ELSE value.v

(***************************************************************************)
(* Property codec (utils/parsing.ts)                                       *)
(***************************************************************************)
TagOf(name) == [name |-> name]

NonEmptyString(s) == s # << >>

parseMultiSelect(text) ==
    Map(TagOf, Filter(NonEmptyString, Map(Trim, Split(text, ","))))

richText(value) ==
    [rich_text |-> << [text |-> [content |-> String(value)]] >>]

select(value) ==
    [select |-> [name |-> String(value)]]

multiSelect(value) ==
    [multi_select |-> parseMultiSelect(String(value))]

\* only called with a number by the validated workflows; Number(string) of a
\* one-digit string is its value
number(value) ==
    [number |-> IF value.t = "number" THEN value
                ELSE IF Len(value.v) = 1 /\ value.v[1] \in Digits
                     THEN JNum(DigitVal(value.v[1]))
                     ELSE [t |-> "number", v |-> "NaN"]]

propertyBuilders(builder, value) ==
    CASE builder = "richText" -> richText(value)
      [] builder = "select" -> select(value)
      [] builder = "multiSelect" -> multiSelect(value)
      [] builder = "number" -> number(value)

(***************************************************************************)
(* Notion property values and pages (utils/notion.ts)                      *)
(*                                                                         *)
(* A property is [type |-> kind, <kind> |-> value]; a page is              *)
(* [id, properties] and a partial page object is [id] alone.               *)
(***************************************************************************)
Span(s) == [plain_text |-> s]

\* page.properties[name]
Prop(page, name) ==
    IF name \in DOMAIN page.properties THEN page.properties[name] ELSE JUndef

\* the number test written as a falsy test: 0 counts as empty
isEmptyFalsyNumber(property) ==
    IF property = JUndef THEN TRUE
    ELSE IF property.type = "number"
         THEN property.number = JNull \/ property.number = JNum(0)
    ELSE IF property.type = "rich_text" THEN Len(property.rich_text) = 0
    ELSE IF property.type = "select" THEN property.select = JNull
    ELSE IF property.type = "multi_select" THEN Len(property.multi_select) = 0
    ELSE IF property.type = "title" THEN Len(property.title) = 0
    ELSE TRUE

\* the rich_text test misses and the property falls through to the last line
isEmptyTextFallsThrough(property) ==
    IF property = JUndef THEN TRUE
    ELSE IF property.type = "number" THEN property.number = JNull
    ELSE IF property.type = "select" THEN property.select = JNull
    ELSE IF property.type = "multi_select" THEN Len(property.multi_select) = 0
    ELSE IF property.type = "title" THEN Len(property.title) = 0
    ELSE TRUE

isEmpty(property) ==
    IF property = JUndef THEN TRUE
    ELSE IF property.type = "number" THEN property.number = JNull
    ELSE IF property.type = "rich_text" THEN Len(property.rich_text) = 0
    ELSE IF property.type = "select" THEN property.select = JNull
    ELSE IF property.type = "multi_select" THEN Len(property.multi_select) = 0
    ELSE IF property.type = "title" THEN Len(property.title) = 0
    ELSE TRUE

extractTitle(page) ==
    IF "properties" \notin DOMAIN page THEN << "U" >>
    ELSE LET nameProperty == Prop(page, "Name")
         IN IF nameProperty = JUndef \/ nameProperty.type # "title"
            THEN << "U" >>
            ELSE IF Len(nameProperty.title) > 0
                 THEN nameProperty.title[1].plain_text
                 ELSE << "U" >>

hasEmptyProperties(page, propertyNames) ==
    IF "properties" \notin DOMAIN page THEN FALSE
    ELSE \E k \in 1..Len(propertyNames) :
             isEmpty(Prop(page, propertyNames[k]))

\* fieldMappings.reduce(...) over the mappings from position k on
RECURSIVE ReduceMappings(_, _, _, _)
ReduceMappings(page, data, fieldMappings, k) ==
    IF k > Len(fieldMappings) THEN << >>
    ELSE LET propertyName == fieldMappings[k][1]
             dataKey == fieldMappings[k][2]
             builder == fieldMappings[k][3]
             value == Member(data, dataKey)
             property == Prop(page, propertyName)
             later == ReduceMappings(page, data, fieldMappings, k + 1)
         IN IF isEmpty(property) /\ value # JNull /\ value # JUndef
            THEN later @@ (propertyName :> propertyBuilders(builder, value))
            ELSE later

\* the reduce without the isEmpty test
RECURSIVE ReduceMappingsOverwrite(_, _, _, _)
ReduceMappingsOverwrite(page, data, fieldMappings, k) ==
    IF k > Len(fieldMappings) THEN << >>
    ELSE LET value == Member(data, fieldMappings[k][2])
             later == ReduceMappingsOverwrite(page, data, fieldMappings, k + 1)
         IN IF value # JNull /\ value # JUndef
            THEN later @@ (fieldMappings[k][1] :>
                              propertyBuilders(fieldMappings[k][3], value))
            ELSE later

\* buildPropertyUpdates without the isEmpty test
buildPropertyUpdatesOverwrite(page, data, fieldMappings) ==
    IF "properties" \notin DOMAIN page THEN << >>
    ELSE ReduceMappingsOverwrite(page, data, fieldMappings, 1)

buildPropertyUpdates(page, data, fieldMappings) ==
    IF "properties" \notin DOMAIN page THEN << >>
    ELSE ReduceMappings(page, data, fieldMappings, 1)

\* the property value the store holds after an update request was applied
ToResponse(request) ==
    IF "rich_text" \in DOMAIN request
    THEN [type |-> "rich_text",
          rich_text |-> [k \in 1..Len(request.rich_text) |->
                            Span(request.rich_text[k].text.content)]]
    ELSE IF "select" \in DOMAIN request
    THEN [type |-> "select", select |-> request.select]
    ELSE IF "multi_select" \in DOMAIN request
    THEN [type |-> "multi_select", multi_select |-> request.multi_select]
    ELSE [type |-> "number", number |-> request.number]

\* notion.pages.update({page_id, properties}) on the stored page
updatePage(page, properties) ==
    [page EXCEPT !.properties =
        [n \in DOMAIN page.properties \cup DOMAIN properties |->
            IF n \in DOMAIN properties THEN ToResponse(properties[n])
            ELSE page.properties[n]]]

(***************************************************************************)
(* Response text of the generation service, as a sequence of tokens: a     *)
(* code fence, the word json, whitespace, text that is no JSON, or one     *)
(* well-formed JSON document carrying its decoded value.                   *)
(***************************************************************************)
Fence == [k |-> "fence"]
JsonTag == [k |-> "json"]
Ws == [k |-> "ws"]
Junk == [k |-> "junk"]
Doc(value) == [k |-> "doc", v |-> value]

RECURSIVE SkipWs(_)
SkipWs(text) ==
    IF text # << >> /\ Head(text) = Ws THEN SkipWs(Tail(text)) ELSE text

RECURSIVE DropWsEnd(_)
DropWsEnd(text) ==
    IF text # << >> /\ text[Len(text)] = Ws
    THEN DropWsEnd(SubSeq(text, 1, Len(text) - 1))
    ELSE text

\* rawText.trim()
TextTrim(text) == DropWsEnd(SkipWs(text))

\* text.replace(/\s*<fence>$/, ""): the closing fence and the whitespace before it
StripClosingFence(text) ==
    IF text # << >> /\ text[Len(text)] = Fence
    THEN DropWsEnd(SubSeq(text, 1, Len(text) - 1))
    ELSE text

\* the fence stripping of batchAnnotate on the trimmed text
StripFences(cleanedText) ==
    IF Len(cleanedText) >= 2 /\ cleanedText[1] = Fence
           /\ cleanedText[2] = JsonTag
    THEN StripClosingFence(SkipWs(SubSeq(cleanedText, 3, Len(cleanedText))))
    ELSE IF Len(cleanedText) >= 1 /\ cleanedText[1] = Fence
    THEN StripClosingFence(SkipWs(Tail(cleanedText)))
    ELSE cleanedText

Thrown == [ok |-> FALSE]

Value(v) == [ok |-> TRUE, value |-> v]

\* JSON.parse: one document, whitespace allowed around it
JSONparse(text) ==
    LET t == TextTrim(text)
    IN IF Len(t) = 1 /\ t[1].k = "doc" THEN Value(t[1].v) ELSE Thrown

\* every result of JSON.parse is a JSON value
isJsonValue(value) == value.t # "undefined"

(***************************************************************************)
(* Workflow configuration and response validation (meal completion)        *)
(***************************************************************************)
REQUIRED_PROPERTIES == << "Ingredients", "Cooking instructions" >>

FIELD_MAPPINGS ==
    << << "Ingredients", "ingredients", "multiSelect" >>,
       << "Cooking instructions", "cookingInstructions", "richText" >> >>

IsPlainObject(x) == TypeOf(x) = "object" /\ x # JNull /\ x.t # "array"

\* the validator testing the last field for presence only
isValidMealsResponseAnyKind(obj) ==
    IF ~IsPlainObject(obj) THEN FALSE
    ELSE IF Member(obj, "meals").t # "array" THEN FALSE
    ELSE \A k \in 1..Len(Member(obj, "meals").v) :
             LET meal == Member(obj, "meals").v[k]
             IN IsPlainObject(meal)
                /\ TypeOf(Member(meal, "ingredients")) = "string"
                /\ TypeOf(Member(meal, "cookingInstructions")) # "undefined"

isValidMealsResponse(obj) ==
    IF ~IsPlainObject(obj) THEN FALSE
    ELSE IF Member(obj, "meals").t # "array" THEN FALSE
    ELSE \A k \in 1..Len(Member(obj, "meals").v) :
             LET meal == Member(obj, "meals").v[k]
             IN IsPlainObject(meal)
                /\ TypeOf(Member(meal, "ingredients")) = "string"
                /\ TypeOf(Member(meal, "cookingInstructions")) = "string"

\* parseResponse: the meals array, or a throw
parseResponse(json) ==
    IF ~isValidMealsResponse(json) THEN Thrown
    ELSE Value(Member(json, "meals").v)

\* the try block of the batchAnnotate that strips code fences
ParseStripping(text) ==
    LET cleanedText == TextTrim(text)
    IN IF cleanedText = << >> THEN Thrown
       ELSE LET jsonResponse == JSONparse(StripFences(cleanedText))
            IN IF ~jsonResponse.ok THEN Thrown
               ELSE IF ~isJsonValue(jsonResponse.value) THEN Thrown
               ELSE parseResponse(jsonResponse.value)

\* the try block of the batchAnnotate that parses the text as it is
ParseRaw(text) ==
    LET jsonResponse == JSONparse(text)
    IN IF ~jsonResponse.ok THEN Thrown
       ELSE parseResponse(jsonResponse.value)

\* try { ... parsedData = parseResponse(...) } catch { throw } of the linked
\* definition of batchAnnotate
ParseResponseText(module, text) ==
    IF module = "stripping" THEN ParseStripping(text) ELSE ParseRaw(text)

(***************************************************************************)
(* Prompt builder (workflow index.ts)                                      *)
(***************************************************************************)
Placeholder == "{{MEALS_LIST}}"

\* prompt.md: text, the list placeholder on a line of its own, text
promptTemplate == << "T", "\n", Placeholder, "\n", "T" >>

\* the replacement patterns String.prototype.replace expands in a replacement
\* string: $$ is a dollar sign, $& the matched text, $' the text after the
\* match; any other use of the dollar sign stands for itself
RECURSIVE GetSubstitution(_, _, _)
GetSubstitution(replacement, matched, after) ==
    IF replacement = << >> THEN << >>
    ELSE IF Head(replacement) = "$" /\ Len(replacement) >= 2
                /\ replacement[2] \in {"$", "&", "'"}
    THEN (CASE replacement[2] = "$" -> << "$" >>
            [] replacement[2] = "&" -> matched
            [] replacement[2] = "'" -> after)
         \o GetSubstitution(SubSeq(replacement, 3, Len(replacement)),
                            matched, after)
    ELSE << Head(replacement) >>
         \o GetSubstitution(Tail(replacement), matched, after)

\* str.replace(pattern, replacement) for a string pattern: first occurrence
StringReplace(str, pattern, replacement) ==
    IF \A k \in 1..Len(str) : str[k] # pattern THEN str
    ELSE LET p == CHOOSE k \in 1..Len(str) :
                     str[k] = pattern /\ \A j \in 1..(k - 1) : str[j] # pattern
             after == SubSeq(str, p + 1, Len(str))
         IN SubSeq(str, 1, p - 1)
            \o GetSubstitution(replacement, << pattern >>, after)
            \o after

\* meals.map((m, i) => `${i + 1}. ${m}`).join("\n"), from entry k on
RECURSIVE NumberedList(_, _)
NumberedList(meals, k) ==
    IF k > Len(meals) THEN << >>
    ELSE NumToString(k) \o << ".", " " >> \o meals[k]
         \o (IF k < Len(meals) THEN << "\n" >> ELSE << >>)
         \o NumberedList(meals, k + 1)

buildPrompt(meals) ==
    StringReplace(promptTemplate, Placeholder, NumberedList(meals, 1))

(***************************************************************************)
(* Harness for the pure functions: the workflow stays idle, Init draws the *)
(* arguments and one action applies the function.                          *)
(***************************************************************************)
NoRet == [t |-> "pending"]

Returned(v) == [t |-> "returned", v |-> v]

IdleWorkflow ==
    /\ store = << >>
    /\ aiModule = "none"
    /\ aiMemo = << >>
    /\ run = 0
    /\ pc = "idle"
    /\ fetched = << >>
    /\ pages = << >>
    /\ names = << >>
    /\ prompt = << >>
    /\ response = << >>
    /\ parsedData = << >>
    /\ i = 0
    /\ writes = << >>
    /\ genCalls = << >>
    /\ warned = FALSE
    /\ error = "none"
    /\ ended = << >>
    /\ notionModule = "none"
    /\ chunk = 0
    /\ allPages = << >>
    /\ hasMore = FALSE
    /\ startCursor = JUndef
    /\ requests = << >>
    /\ edits = << >>

\* all sequences over S of length at most n
SeqsUpTo(S, n) == UNION {[1..k -> S] : k \in 0..n}

(***************************************************************************)
(* hasEmptyProperties on every page over five fields, one per kind         *)
(***************************************************************************)
KindFields == {"Distance", "Notes", "Season", "Tags", "Name"}

\* the values a field of each kind can hold: empty and non-empty
FieldValues(name) ==
    CASE name = "Distance" ->
             {[type |-> "number", number |-> JNull],
              [type |-> "number", number |-> JNum(0)]}
      [] name = "Notes" ->
             {[type |-> "rich_text", rich_text |-> << >>],
              [type |-> "rich_text", rich_text |-> << Span(<< "x" >>) >>]}
      [] name = "Season" ->
             {[type |-> "select", select |-> JNull],
              [type |-> "select", select |-> TagOf(<< "S" >>)]}
      [] name = "Tags" ->
             {[type |-> "multi_select", multi_select |-> << >>],
              [type |-> "multi_select", multi_select |-> << TagOf(<< "A" >>) >>]}
      [] name = "Name" ->
             {[type |-> "title", title |-> << >>],
              [type |-> "title", title |-> << Span(<< "A" >>) >>]}

\* full page objects: any subset of the fields present, each with any value
FullPages ==
    UNION {{[id |-> 1, properties |-> f] :
               f \in {g \in [D -> UNION {FieldValues(n) : n \in D}] :
                         \A n \in D : g[n] \in FieldValues(n)}} :
           D \in SUBSET KindFields}

PartialPage == [id |-> 1]

InitElig ==
    /\ IdleWorkflow
    /\ films = NoFilms
    /\ traversal = NoTraversal
    /\ fn = "hasEmptyProperties"
    /\ arg \in {[page |-> p, propertyNames |-> F] :
                   p \in FullPages \cup {PartialPage},
                   F \in SeqsUpTo(KindFields, MaxProps)}
    /\ ret = NoRet

CallHasEmptyProperties ==
    /\ fn = "hasEmptyProperties"
    /\ ret = NoRet
    /\ ret' = Returned(hasEmptyProperties(arg.page, arg.propertyNames))
    /\ UNCHANGED << wfVars, fn, arg, films, traversal >>

NextElig == CallHasEmptyProperties

SpecElig == InitElig /\ [][NextElig]_vars

\* the emptiness rule of the data model, stated per kind on the stored value
EmptyByRule(page, name) ==
    \/ name \notin DOMAIN page.properties
    \/ LET v == page.properties[name]
       IN \/ v.type \in {"rich_text"} /\ v.rich_text = << >>
          \/ v.type \in {"title"} /\ v.title = << >>
          \/ v.type = "select" /\ v.select = JNull
          \/ v.type = "multi_select" /\ v.multi_select = << >>
          \/ v.type = "number" /\ v.number = JNull

\* C2: for every record R (a page object that carries its field map) and
\* every list F of required field names, hasEmptyProperties(R, F) is true
\* iff at least one field named in F is empty under the rule of its kind,
\* an absent field counting as empty, and false iff every field in F is
\* non-empty.
C2_Eligibility ==
    (fn = "hasEmptyProperties" /\ ret # NoRet
        /\ "properties" \in DOMAIN arg.page)
    => /\ ret.v = (\E k \in 1..Len(arg.propertyNames) :
                    EmptyByRule(arg.page, arg.propertyNames[k]))
       /\ (ret.v = FALSE) = (\A k \in 1..Len(arg.propertyNames) :
                                ~EmptyByRule(arg.page, arg.propertyNames[k]))

\* a record with a number field holding 0 and an absent field: eligible for
\* the absent one, not eligible for the number alone
C2_Witness ==
    /\ fn = "hasEmptyProperties"
    /\ ret = Returned(TRUE)
    /\ "properties" \in DOMAIN arg.page
    /\ Len(arg.propertyNames) = 2
    /\ arg.propertyNames[1] = "Distance"
    /\ "Distance" \in DOMAIN arg.page.properties
    /\ arg.page.properties["Distance"].number = JNum(0)
    /\ arg.propertyNames[2] \notin DOMAIN arg.page.properties

(***************************************************************************)
(* The multi-choice codec on every short string over letters, comma, space *)
(***************************************************************************)
CodecChars == {"A", "B", ",", " "}

InitCodec ==
    /\ IdleWorkflow
    /\ films = NoFilms
    /\ traversal = NoTraversal
    /\ fn = "multiSelect"
    /\ arg \in SeqsUpTo(CodecChars, MaxText)
    /\ ret = NoRet

CallMultiSelect ==
    /\ fn = "multiSelect"
    /\ ret = NoRet
    /\ ret' = Returned(multiSelect(JStr(arg)))
    /\ UNCHANGED << wfVars, fn, arg, films, traversal >>

NextCodec == CallMultiSelect

SpecCodec == InitCodec /\ [][NextCodec]_vars

\* keep the first occurrence of every element
RECURSIVE Dedupe(_)
Dedupe(s) ==
    IF s = << >> THEN << >>
    ELSE LET rest == Dedupe(SubSeq(s, 1, Len(s) - 1))
             last == s[Len(s)]
         IN IF \E k \in 1..Len(rest) : rest[k] = last
            THEN rest
            ELSE Append(rest, last)

\* the names of a tag list
TagNames(tags) == [k \in 1..Len(tags) |-> tags[k].name]

\* the comma-separated entries of a string, trimmed, empty ones dropped
Entries(text) == Filter(NonEmptyString, Map(Trim, Split(text, ",")))

\* C8: for every input string the multi-choice codec yields the
\* comma-separated entries in their original order, each trimmed, empty
\* entries dropped and duplicate names collapsed to one tag.
C8_MultiChoiceDedupes ==
    (fn = "multiSelect" /\ ret # NoRet)
    => TagNames(ret.v.multi_select) = Dedupe(Entries(arg))

(***************************************************************************)
(* The workflow: run() of the meal completion script and batchAnnotate     *)
(***************************************************************************)
EmptyTags == [type |-> "multi_select", multi_select |-> << >>]
SomeTags == [type |-> "multi_select", multi_select |-> << TagOf(<< "Z" >>) >>]
EmptyText == [type |-> "rich_text", rich_text |-> << >>]
SomeText == [type |-> "rich_text", rich_text |-> << Span(<< "z" >>) >>]

\* the page with id k: its title and the two target fields
MkPage(k, ingredients, instructions) ==
    [id |-> k,
     properties |->
         ("Name" :> [type |-> "title", title |-> << Span(<< "P", Digit(k) >>) >>])
         @@ ("Ingredients" :> ingredients)
         @@ ("Cooking instructions" :> instructions)]

\* the databases: 1..MaxPages pages, every target field empty or filled
Stores ==
    UNION {{[k \in 1..n |-> MkPage(k, ing[k], ins[k])] :
               ing \in [1..n -> {EmptyTags, SomeTags}],
               ins \in [1..n -> {EmptyText, SomeText}]} :
           n \in 1..MaxPages}

\* elements the generation service may put in the response array
MealA == JObj([ingredients |-> JStr(<< "A" >>),
               cookingInstructions |-> JStr(<< "x" >>)])
MealB == JObj([ingredients |-> JStr(<< "B" >>),
               cookingInstructions |-> JStr(<< "y" >>)])
MealBlank == JObj([ingredients |-> JStr(<< " " >>),
                   cookingInstructions |-> JStr(<< "x" >>)])
MealNoInstructions == JObj([ingredients |-> JStr(<< "A" >>)])
MealNumber == JObj([ingredients |-> JStr(<< "A" >>),
                    cookingInstructions |-> JNum(1)])

\* the well-formed array of a given length: MealA and MealB in turn
Expected(len) == [k \in 1..len |-> IF k % 2 = 1 THEN MealA ELSE MealB]

\* arrays of the response: the empty one, one whose multi-choice value is
\* blank, the well-formed one of each length, and the same with a missing key
\* in its last or a non-string value in its first element
ResponseArrays ==
    {<< >>, << MealBlank >>}
    \cup UNION {{Expected(len),
                 [Expected(len) EXCEPT ![len] = MealNoInstructions],
                 [Expected(len) EXCEPT ![1] = MealNumber]} :
                len \in 1..MaxItems}

\* decoded values of the response: the expected shape, a top-level array, an
\* object without the meals key, a meals key that is no array
ResponseValues ==
    {JObj([meals |-> JArr(items)]) : items \in ResponseArrays}
    \cup {JArr(<< MealA >>),
          JObj([items |-> JArr(<< MealA >>)]),
          JObj([meals |-> JStr(<< "A" >>)])}

ResponseBodies ==
    {<< >>, << Junk >>} \cup {<< Doc(v) >> : v \in ResponseValues}

\* the body as it is, or inside a json-tagged or a plain code fence
Wrap(fence, body) ==
    CASE fence = "none" -> body
      [] fence = "json" -> << Fence, JsonTag, Ws >> \o body \o << Ws, Fence >>
      [] fence = "plain" -> << Fence, Ws >> \o body \o << Ws, Fence >>

ResponseTexts ==
    {Wrap(fence, body) : fence \in {"none", "json", "plain"},
                         body \in ResponseBodies}

\* page_size of the query request
page_size == 100

\* a database smaller than page_size is served in one response, which both
\* definitions of getAllPages return whole; SpecPages runs the two of them
\* against a remote that serves fewer records at a time
Init ==
    /\ store \in Stores
    /\ aiModule \in {"stripping", "raw"}
    /\ aiMemo = {}
    /\ run = 1
    /\ pc = "start"
    /\ fetched = << >>
    /\ pages = << >>
    /\ names = << >>
    /\ prompt = << >>
    /\ response = << >>
    /\ parsedData = << >>
    /\ i = 0
    /\ writes = << >>
    /\ genCalls = << >>
    /\ warned = FALSE
    /\ error = "none"
    /\ ended = << >>
    /\ fn = "run"
    /\ arg = << >>
    /\ ret = NoRet
    /\ notionModule = "paginating"
    /\ chunk = page_size
    /\ allPages = << >>
    /\ hasMore = TRUE
    /\ startCursor = JUndef
    /\ requests = << >>
    /\ edits = << >>
    /\ films = NoFilms
    /\ traversal = NoTraversal

IsEligible(page) == hasEmptyProperties(page, REQUIRED_PROPERTIES)

(***************************************************************************)
(* getAllPages: the query requests and the remote's answers                *)
(***************************************************************************)
\* the cursor the remote hands out for the record at position p
Cursor(p) == JStr(<< "c" >> \o NumToString(p))

\* the position a request starts at: the first record without a cursor
CursorPos(records, cursor) ==
    IF cursor = JUndef THEN 1
    ELSE CHOOSE p \in 1..(Len(records) + 1) : Cursor(p) = cursor

\* the DatabaseQueryResponse of the remote to a request with start_cursor
QueryResponse(records, size, cursor) ==
    LET from == CursorPos(records, cursor)
        to == IF from + size - 1 < Len(records) THEN from + size - 1
              ELSE Len(records)
    IN [results |-> SubSeq(records, from, to),
        has_more |-> to < Len(records),
        next_cursor |-> IF to < Len(records) THEN Cursor(to + 1) ELSE JNull]

\* value || undefined
OrUndefined(value) ==
    IF value = JNull \/ value = JStr(<< >>) THEN JUndef ELSE value

\* start_cursor of the request body: the paginating definition sends
\* startCursor, the other one sends an empty body
RequestCursor ==
    IF notionModule = "paginating" THEN startCursor ELSE JUndef

\* getAllPages: fetch is called with the query request
QueryDatabase ==
    /\ pc = "start"
    /\ requests' = Append(requests, [run |-> run,
                                     start_cursor |-> RequestCursor,
                                     status |-> "pending"])
    /\ pc' = "await_query"
    /\ UNCHANGED << store, aiModule, aiMemo, run, fetched, pages, names,
                    prompt, response, parsedData, i, writes, genCalls, warned,
                    error, ended, fn, arg, ret,
                    edits, films, traversal, notionModule, chunk, allPages, hasMore, startCursor >>

\* the mutant of QueryOk: a response with has_more set is dropped and the
\* next request starts again without a cursor
QueryOkRestarts ==
    /\ pc = "await_query"
    /\ LET data == QueryResponse(store, chunk, RequestCursor)
       IN IF notionModule = "paginating"
          THEN /\ allPages' = IF data.has_more THEN allPages
                              ELSE allPages \o data.results
               /\ hasMore' = data.has_more
               /\ startCursor' = JUndef
               /\ pc' = IF data.has_more THEN "start" ELSE "filter"
          ELSE /\ allPages' = data.results
               /\ pc' = "filter"
               /\ UNCHANGED << hasMore, startCursor >>
    /\ requests' = [requests EXCEPT ![Len(requests)].status = "ok"]
    /\ UNCHANGED << store, aiModule, aiMemo, run, fetched, pages, names,
                    prompt, response, parsedData, i, writes, genCalls, warned,
                    error, ended, fn, arg, ret,
                    edits, films, traversal, notionModule, chunk >>

\* the response is ok: the paginating definition appends the results and
\* loops while has_more, the other one returns data.results
QueryOk ==
    /\ pc = "await_query"
    /\ LET data == QueryResponse(store, chunk, RequestCursor)
       IN IF notionModule = "paginating"
          THEN /\ allPages' = allPages \o data.results
               /\ hasMore' = data.has_more
               /\ startCursor' = OrUndefined(data.next_cursor)
               /\ pc' = IF data.has_more THEN "start" ELSE "filter"
          ELSE /\ allPages' = data.results
               /\ pc' = "filter"
               /\ UNCHANGED << hasMore, startCursor >>
    /\ requests' = [requests EXCEPT ![Len(requests)].status = "ok"]
    /\ UNCHANGED << store, aiModule, aiMemo, run, fetched, pages, names,
                    prompt, response, parsedData, i, writes, genCalls, warned,
                    error, ended, fn, arg, ret,
                    edits, films, traversal, notionModule, chunk >>

\* the failed response logged and the pages gathered so far returned
QueryNotOkReturnsGathered ==
    /\ pc = "await_query"
    /\ requests' = [requests EXCEPT ![Len(requests)].status = "failed"]
    /\ pc' = "filter"
    /\ UNCHANGED << store, aiModule, aiMemo, run, fetched, pages, names,
                    prompt, response, parsedData, i, writes, genCalls, warned,
                    error, ended, fn, arg, ret,
                    edits, films, traversal, notionModule, chunk, allPages, hasMore, startCursor >>

\* the response is not ok: the error escapes getAllPages and run()
QueryNotOk ==
    /\ pc = "await_query"
    /\ requests' = [requests EXCEPT ![Len(requests)].status = "failed"]
    /\ error' = "query"
    /\ pc' = "failed"
    /\ UNCHANGED << store, aiModule, aiMemo, run, fetched, pages, names,
                    prompt, response, parsedData, i, writes, genCalls, warned,
                    ended, fn, arg, ret,
                    edits, films, traversal, notionModule, chunk, allPages, hasMore, startCursor >>

\* run(): getAllPages has resolved, the eligibility filter, the early
\* return; batchAnnotate: names = pages.map(extractName)
FetchAndFilter ==
    /\ pc = "filter"
    /\ fetched' = allPages
    /\ LET eligible == Filter(IsEligible, allPages)
       IN IF Len(eligible) = 0
          THEN /\ pc' = "done"
               /\ UNCHANGED << pages, names >>
          ELSE /\ pc' = "build_prompt"
               /\ pages' = eligible
               /\ names' = Map(extractTitle, eligible)
    /\ UNCHANGED << store, aiModule, aiMemo, run, prompt, response,
                    parsedData, i, writes, genCalls, warned, error, ended,
                    fn, arg, ret, qVars, edits, films, traversal >>

\* batchAnnotate: buildPrompt resolves and generateContent is called
BuildPrompt ==
    /\ pc = "build_prompt"
    /\ prompt' = buildPrompt(names)
    /\ genCalls' = Append(genCalls, run)
    /\ pc' = "generate"
    /\ UNCHANGED << store, aiModule, aiMemo, run, fetched, pages, names,
                    response, parsedData, i, writes, warned, error, ended,
                    fn, arg, ret, qVars, edits, films, traversal >>

Answered == {m.prompt : m \in aiMemo}

\* generateContent resolves: the service answers a prompt it has seen before
\* with the same text, a new prompt with any text
GenerateReturns ==
    /\ pc = "generate"
    /\ IF prompt \in Answered
       THEN /\ response' = (CHOOSE m \in aiMemo : m.prompt = prompt).text
            /\ UNCHANGED aiMemo
       ELSE \E text \in ResponseTexts :
               /\ response' = text
               /\ aiMemo' = aiMemo \cup {[prompt |-> prompt, text |-> text]}
    /\ pc' = "parse"
    /\ UNCHANGED << store, aiModule, run, fetched, pages, names, prompt,
                    parsedData, i, writes, genCalls, warned, error, ended,
                    fn, arg, ret, qVars, edits, films, traversal >>

\* generateContent rejects and is called again
GenerateFailsRetries ==
    /\ pc = "generate"
    /\ Len(genCalls) < 2 * MaxRuns
    /\ genCalls' = Append(genCalls, run)
    /\ UNCHANGED << store, aiModule, aiMemo, run, pc, fetched, pages, names,
                    prompt, response, parsedData, i, writes, warned, error,
                    ended, fn, arg, ret, qVars, edits, films, traversal >>

\* generateContent rejects: the error escapes batchAnnotate and run()
GenerateFails ==
    /\ pc = "generate"
    /\ error' = "generate"
    /\ pc' = "failed"
    /\ UNCHANGED << store, aiModule, aiMemo, run, fetched, pages, names,
                    prompt, response, parsedData, i, writes, genCalls, warned,
                    ended,
                    fn, arg, ret, qVars, edits, films, traversal >>

\* the catch block logging the error and going on with no data
ParseValidateSwallow ==
    /\ pc = "parse"
    /\ LET result == ParseResponseText(aiModule, response)
       IN /\ parsedData' = IF result.ok THEN result.value ELSE << >>
          /\ warned' = (Len(parsedData') # Len(pages))
    /\ i' = 0
    /\ pc' = "loop"
    /\ UNCHANGED << store, aiModule, aiMemo, run, fetched, pages, names,
                    prompt, response, writes, genCalls, error, ended,
                    fn, arg, ret, qVars, edits, films, traversal >>

\* batchAnnotate: the try block, the count warning, the loop is entered
ParseValidate ==
    /\ pc = "parse"
    /\ LET result == ParseResponseText(aiModule, response)
       IN IF ~result.ok
          THEN /\ error' = "parse"
               /\ pc' = "failed"
               /\ UNCHANGED << parsedData, warned, i >>
          ELSE /\ parsedData' = result.value
               /\ warned' = (Len(result.value) # Len(pages))
               /\ i' = 0
               /\ pc' = "loop"
               /\ UNCHANGED error
    /\ UNCHANGED << store, aiModule, aiMemo, run, fetched, pages, names,
                    prompt, response, writes, genCalls, ended, fn, arg, ret, qVars, edits, films, traversal >>

\* the last element reused for the positions past the end of the array
DataAtClamped(k) ==
    IF Len(parsedData) = 0 THEN JUndef
    ELSE IF k + 1 <= Len(parsedData) THEN parsedData[k + 1]
    ELSE parsedData[Len(parsedData)]

\* the 1-based number of the prompt entry used as the 0-based array index
DataAtNumber(k) == IF k + 2 <= Len(parsedData) THEN parsedData[k + 2] ELSE JUndef

\* parsedData[i], undefined past the end of the array
DataAt(k) == IF k + 1 <= Len(parsedData) THEN parsedData[k + 1] ELSE JUndef

\* buildUpdates(page, data) as the workflow passes it to batchAnnotate
buildUpdates(page, data) == buildPropertyUpdates(page, data, FIELD_MAPPINGS)

\* the loop condition fails: batchAnnotate and run() return
LoopEnd ==
    /\ pc = "loop"
    /\ i >= Len(pages)
    /\ pc' = "done"
    /\ UNCHANGED << store, aiModule, aiMemo, run, fetched, pages, names,
                    prompt, response, parsedData, i, writes, genCalls, warned,
                    error, ended, fn, arg, ret, qVars, edits, films, traversal >>

\* one pass of the loop body with updatePage called and not awaited
RecordStepNoAwait ==
    /\ pc = "loop"
    /\ i < Len(pages)
    /\ IF DataAt(i) = JUndef
       THEN UNCHANGED writes
       ELSE LET updates == buildUpdates(pages[i + 1], DataAt(i))
            IN IF DOMAIN updates = {}
               THEN UNCHANGED writes
               ELSE writes' = Append(writes, [run |-> run, pos |-> i,
                                              page |-> pages[i + 1],
                                              data |-> DataAt(i),
                                              updates |-> updates,
                                              status |-> "pending"])
    /\ i' = i + 1
    /\ UNCHANGED << store, aiModule, aiMemo, run, pc, fetched, pages, names,
                    prompt, response, parsedData, genCalls, warned, error,
                    ended, fn, arg, ret, qVars, edits, films, traversal >>

\* one pass of the loop body up to its await: no data and continue, no
\* updates and continue, or updatePage(page, updates) is called
RecordStep ==
    /\ pc = "loop"
    /\ i < Len(pages)
    /\ IF DataAt(i) = JUndef
       THEN /\ i' = i + 1
            /\ UNCHANGED << pc, writes >>
       ELSE LET updates == buildUpdates(pages[i + 1], DataAt(i))
            IN IF DOMAIN updates = {}
               THEN /\ i' = i + 1
                    /\ UNCHANGED << pc, writes >>
               ELSE /\ writes' = Append(writes, [run |-> run, pos |-> i,
                                                 page |-> pages[i + 1],
                                                 data |-> DataAt(i),
                                                 updates |-> updates,
                                                 status |-> "pending"])
                    /\ pc' = "await_write"
                    /\ UNCHANGED i
    /\ UNCHANGED << store, aiModule, aiMemo, run, fetched, pages, names,
                    prompt, response, parsedData, genCalls, warned, error, ended,
                    fn, arg, ret, qVars, edits, films, traversal >>

\* the update request succeeds: the store applies it, the loop goes on
WriteDone ==
    /\ pc = "await_write"
    /\ LET w == writes[Len(writes)]
       IN store' = [store EXCEPT ![w.page.id] = updatePage(@, w.updates)]
    /\ writes' = [writes EXCEPT ![Len(writes)].status = "done"]
    /\ i' = i + 1
    /\ pc' = "loop"
    /\ UNCHANGED << aiModule, aiMemo, run, fetched, pages, names, prompt,
                    response, parsedData, genCalls, warned, error, ended,
                    fn, arg, ret, qVars, edits, films, traversal >>

\* the update request fails and the records written by the run are restored
WriteFailsRollsBack ==
    /\ pc = "await_write"
    /\ writes' = [writes EXCEPT ![Len(writes)].status = "failed"]
    /\ store' = [id \in DOMAIN store |->
                    IF \E k \in 1..Len(writes) :
                          writes[k].run = run /\ writes[k].page.id = id
                    THEN fetched[id]
                    ELSE store[id]]
    /\ error' = "write"
    /\ pc' = "failed"
    /\ UNCHANGED << aiModule, aiMemo, run, fetched, pages, names,
                    prompt, response, parsedData, i, genCalls, warned,
                    ended, fn, arg, ret, qVars, edits, films, traversal >>

\* the update request fails: the error escapes batchAnnotate and run()
WriteFails ==
    /\ pc = "await_write"
    /\ writes' = [writes EXCEPT ![Len(writes)].status = "failed"]
    /\ error' = "write"
    /\ pc' = "failed"
    /\ UNCHANGED << store, aiModule, aiMemo, run, fetched, pages, names,
                    prompt, response, parsedData, i, genCalls, warned,
                    ended, fn, arg, ret, qVars, edits, films, traversal >>

\* the script is started again after the previous process has ended
NextRun ==
    /\ pc \in {"done", "failed"}
    /\ run < MaxRuns
    /\ run' = run + 1
    /\ pc' = "start"
    /\ fetched' = << >>
    /\ pages' = << >>
    /\ names' = << >>
    /\ prompt' = << >>
    /\ response' = << >>
    /\ parsedData' = << >>
    /\ i' = 0
    /\ warned' = FALSE
    /\ error' = "none"
    /\ ended' = Append(ended, [error |-> error, store |-> store,
                                pages |-> pages, parsedData |-> parsedData])
    /\ allPages' = << >>
    /\ hasMore' = TRUE
    /\ startCursor' = JUndef
    /\ UNCHANGED << store, aiModule, aiMemo, writes, genCalls, fn, arg, ret,
                    edits, films, traversal, notionModule, chunk, requests >>

Next ==
    \/ QueryDatabase
    \/ QueryOk
    \/ QueryNotOk
    \/ FetchAndFilter
    \/ BuildPrompt
    \/ GenerateReturns
    \/ GenerateFails
    \/ ParseValidate
    \/ LoopEnd
    \/ RecordStep
    \/ WriteDone
    \/ WriteFails
    \/ NextRun

Spec == Init /\ [][Next]_vars

(***************************************************************************)
(* Properties of the workflow                                              *)
(***************************************************************************)
\* the updatePage calls of the current run
RunWrites == {k \in 1..Len(writes) : writes[k].run = run}

\* the remote field names and result keys of the field mappings
MappedFields == {FIELD_MAPPINGS[k][1] : k \in 1..Len(FIELD_MAPPINGS)}

MappingOf(field) ==
    FIELD_MAPPINGS[CHOOSE k \in 1..Len(FIELD_MAPPINGS) :
                       FIELD_MAPPINGS[k][1] = field]

\* C1: the update written to a record contains only mapped fields that are
\* empty on that record; a target field that already holds a non-empty
\* value receives no update, even when the response supplies a value for it.
C1_OnlyEmptyFieldsUpdated ==
    \A k \in 1..Len(writes) :
        \A f \in DOMAIN writes[k].updates :
            /\ f \in MappedFields
            /\ EmptyByRule(writes[k].page, f)

\* a record with one target field filled and a response element that has a
\* value for that field: the write that was applied left the field out
C1_Witness ==
    /\ pc = "loop"
    /\ \E k \in RunWrites :
          \E f \in MappedFields :
              /\ ~EmptyByRule(writes[k].page, f)
              /\ Member(writes[k].data, MappingOf(f)[2]).t = "string"
              /\ f \notin DOMAIN writes[k].updates
              /\ DOMAIN writes[k].updates # {}
              /\ store[writes[k].page.id].properties[f]
                     = writes[k].page.properties[f]

\* the response text was decoded and validated in this run
ResponseAccepted ==
    /\ pc \in {"loop", "await_write", "done", "failed"}
    /\ response # << >>
    /\ ParseResponseText(aiModule, response).ok

\* C4: when the validated response holds M result objects for N requested
\* records with M < N, batchAnnotate raises no error for it (the one error
\* that can still end the run is a failed remote write): only positions
\* 0..M-1 can receive a write, none is issued for a position >= M, and the
\* count-mismatch warning is logged.
C4_ShortResponse ==
    (ResponseAccepted /\ Len(parsedData) < Len(pages))
    => /\ warned
       /\ \A k \in RunWrites : writes[k].pos < Len(parsedData)
       /\ pc = "failed" => error = "write"
       /\ error \in {"none", "write"}

\* two requested records, one result object: the run completed, it wrote
\* position 0 and nothing else
C4_Witness ==
    /\ pc = "done"
    /\ error = "none"
    /\ Len(pages) = 2
    /\ Len(parsedData) = 1
    /\ warned
    /\ \E k \in RunWrites : writes[k].pos = 0
    /\ \A k \in RunWrites : writes[k].pos = 0

\* the decoded values that do not have the expected shape: the meals key is
\* missing or no array, or an element lacks one of the required fields or
\* holds it with another kind than string
RequiredKeys == {FIELD_MAPPINGS[k][2] : k \in 1..Len(FIELD_MAPPINGS)}

Malformed(value) ==
    \/ value.t # "object"
    \/ "meals" \notin DOMAIN value.v
    \/ value.v["meals"].t # "array"
    \/ \E k \in 1..Len(value.v["meals"].v) :
          LET e == value.v["meals"].v[k]
          IN \/ e.t # "object"
             \/ \E key \in RequiredKeys :
                   \/ key \notin DOMAIN e.v
                   \/ e.v[key].t # "string"

\* the documents of a response text
DocsIn(text) == {text[k].v : k \in {j \in 1..Len(text) : text[j].k = "doc"}}

\* C5: if any element of the response array lacks a required field or holds
\* it with the wrong primitive kind, or the array key is missing, the whole
\* batch is rejected: batchAnnotate fails and no record is written, also not
\* the records whose own element is well-formed.
C5_MalformedBatchRejected ==
    (/\ pc \in {"loop", "await_write", "done", "failed"}
     /\ \E v \in DocsIn(response) : Malformed(v))
    => /\ pc = "failed"
       /\ error = "parse"
       /\ RunWrites = {}

\* a response whose first element is well-formed and whose second lacks a
\* field, for two eligible records: rejected with nothing written
C5_Witness ==
    /\ pc = "failed"
    /\ error = "parse"
    /\ Len(pages) = 2
    /\ RunWrites = {}
    /\ \E v \in DocsIn(response) :
          /\ v.t = "object"
          /\ "meals" \in DOMAIN v.v
          /\ v.v["meals"] = JArr(<< MealA, MealNoInstructions >>)

\* the text is one JSON document, as it is or inside one code fence
Decodable(text) ==
    \E v \in DocsIn(text) :
        text \in {Wrap(fence, << Doc(v) >>) : fence \in {"none", "json", "plain"}}

\* C6: each record write happens only after the response was parsed and
\* validated; if the response text is empty or, after fence stripping, no
\* valid JSON, batchAnnotate fails and issues no write to any record.
C6_WritesOnlyAfterValidation ==
    /\ RunWrites # {}
          => /\ pc \in {"loop", "await_write", "done", "failed"}
             /\ Decodable(response)
             /\ \A v \in DocsIn(response) : ~Malformed(v)
    /\ (pc \in {"loop", "await_write", "done", "failed"}
           /\ Len(genCalls) > 0 /\ genCalls[Len(genCalls)] = run
           /\ error # "generate"
           /\ ~Decodable(response))
          => /\ pc = "failed"
             /\ error = "parse"
             /\ RunWrites = {}

\* a fenced text that is no JSON inside: the run failed without a write
C6_Witness ==
    /\ pc = "failed"
    /\ error = "parse"
    /\ response = Wrap("json", << Junk >>)
    /\ Len(pages) > 0
    /\ RunWrites = {}

\* C9: the values written to the record at position i of the request derive
\* only from the response element at position i.
C9_PositionalCorrelation ==
    \A k \in RunWrites :
        LET w == writes[k]
        IN /\ w.pos < Len(pages)
           /\ w.page = pages[w.pos + 1]
           /\ names[w.pos + 1] = w.page.properties["Name"].title[1].plain_text
           /\ w.pos < Len(parsedData)
           /\ \A f \in DOMAIN w.updates :
                 w.updates[f] =
                     propertyBuilders(MappingOf(f)[3],
                         parsedData[w.pos + 1].v[MappingOf(f)[2]])

\* two records answered by two different elements: the second record was
\* written with the values of the second element
C9_Witness ==
    /\ pc = "done"
    /\ Len(pages) = 2
    /\ Len(parsedData) = 2
    /\ parsedData[1] = MealA
    /\ parsedData[2] = MealB
    /\ \E k \in RunWrites :
          /\ writes[k].pos = 1
          /\ "Ingredients" \in DOMAIN writes[k].updates
          /\ writes[k].updates["Ingredients"].multi_select = << TagOf(<< "B" >>) >>

\* a result object whose values all encode to a non-empty field value: its
\* multi-choice string has at least one entry that is not blank
EncodesNonEmpty(data) == Entries(data.v["ingredients"].v) # << >>

\* the first run went through without an error
FirstRunCompleted == Len(ended) >= 1 /\ ended[1].error = "none"

\* C3 as stated: when the workflow is run twice in succession with no
\* external change in between and a deterministic generation response, the
\* second run issues no record update.
C3_SecondRunIssuesNoUpdate ==
    FirstRunCompleted => \A k \in 1..Len(writes) : writes[k].run # 2

\* C3 as amended: the second run issues no record update provided the first
\* run completed without error on a response that held, for every eligible
\* record, a result object whose values encode to non-empty field values;
\* every target field is then non-empty after the first run.
C3_SecondRunIssuesNoUpdateAfterFullFirstRun ==
    (/\ FirstRunCompleted
     /\ Len(ended[1].parsedData) >= Len(ended[1].pages)
     /\ \A k \in 1..Len(ended[1].pages) :
           EncodesNonEmpty(ended[1].parsedData[k]))
    => /\ \A k \in 1..Len(writes) : writes[k].run # 2
       /\ \A k \in 1..Len(ended[1].store) :
             \A f \in MappedFields : ~EmptyByRule(ended[1].store[k], f)

\* two eligible records, a full first run that wrote both, and a second run
\* that ended without a generation call or a write
C3_Witness ==
    /\ run = 2
    /\ pc = "done"
    /\ FirstRunCompleted
    /\ Len(ended[1].pages) = 2
    /\ Len(ended[1].parsedData) = 2
    /\ \A k \in 1..2 : EncodesNonEmpty(ended[1].parsedData[k])
    /\ Cardinality({k \in 1..Len(writes) : writes[k].run = 1}) = 2
    /\ genCalls = << 1 >>
    /\ \A k \in 1..Len(writes) : writes[k].run # 2

(***************************************************************************)
(* The try block of batchAnnotate on a response body, bare and fenced      *)
(***************************************************************************)
\* bodies without a fence of their own: whitespace, text that is no JSON,
\* documents of the expected and of another shape
BodyTokens ==
    {Ws, Junk,
     Doc(JObj([meals |-> JArr(<< MealA >>)])),
     Doc(JObj([meals |-> JArr(<< MealA, MealB >>)])),
     Doc(JObj([items |-> JArr(<< MealA >>)]))}

InitParse ==
    /\ IdleWorkflow
    /\ films = NoFilms
    /\ traversal = NoTraversal
    /\ fn = "parse"
    /\ arg \in {[module |-> m, fence |-> f, body |-> b] :
                   m \in {"stripping", "raw"},
                   f \in {"json", "plain"},
                   b \in SeqsUpTo(BodyTokens, MaxBody)}
    /\ ret = NoRet

CallParse ==
    /\ fn = "parse"
    /\ ret = NoRet
    /\ ret' = Returned(
                  [bare |-> ParseResponseText(arg.module, arg.body),
                   fenced |-> ParseResponseText(arg.module,
                                                Wrap(arg.fence, arg.body))])
    /\ UNCHANGED << wfVars, fn, arg, films, traversal >>

NextParse == CallParse

SpecParse == InitParse /\ [][NextParse]_vars

\* C7: for every response body B, batchAnnotate handles B wrapped in a
\* json-tagged or a plain code fence exactly as it handles bare B: the same
\* parsed results, or the same failure.
C7_FencedParsesAsBare ==
    (fn = "parse" /\ ret # NoRet) => ret.v.fenced = ret.v.bare

(***************************************************************************)
(* buildPrompt on every short list of short names                          *)
(***************************************************************************)
NameChars == {"a", "$", "&"}

InitPrompt ==
    /\ IdleWorkflow
    /\ films = NoFilms
    /\ traversal = NoTraversal
    /\ fn = "buildPrompt"
    /\ arg \in SeqsUpTo(SeqsUpTo(NameChars, MaxNameLen), MaxNames)
    /\ ret = NoRet

CallBuildPrompt ==
    /\ fn = "buildPrompt"
    /\ ret = NoRet
    /\ ret' = Returned(buildPrompt(arg))
    /\ UNCHANGED << wfVars, fn, arg, films, traversal >>

NextPrompt == CallBuildPrompt

SpecPrompt == InitPrompt /\ [][NextPrompt]_vars

\* the length of the longest prefix of digits
RECURSIVE DigitPrefix(_)
DigitPrefix(line) ==
    IF line # << >> /\ Head(line) \in Digits
    THEN 1 + DigitPrefix(Tail(line))
    ELSE 0

\* the value of a string of digits
RECURSIVE ParseNumber(_)
ParseNumber(ds) ==
    IF ds = << >> THEN 0
    ELSE 10 * ParseNumber(SubSeq(ds, 1, Len(ds) - 1)) + DigitVal(ds[Len(ds)])

\* a line of the form <number>. <text>
IsNumberedEntry(line) ==
    LET d == DigitPrefix(line)
    IN d > 0 /\ Len(line) >= d + 2 /\ line[d + 1] = "." /\ line[d + 2] = " "

EntryOf(line) ==
    LET d == DigitPrefix(line)
    IN [number |-> ParseNumber(SubSeq(line, 1, d)),
        text |-> SubSeq(line, d + 3, Len(line))]

\* the numbered entries of a prompt, in the order of its lines
NumberedEntries(text) == Map(EntryOf, Filter(IsNumberedEntry, Split(text, "\n")))

\* C10: for every list of N record names the rendered prompt contains
\* exactly N numbered entries, numbered 1..N in input order, and the text of
\* entry k is the k-th input name.
C10_PromptListsEveryName ==
    (fn = "buildPrompt" /\ ret # NoRet)
    => LET entries == NumberedEntries(ret.v)
       IN /\ Len(entries) = Len(arg)
          /\ \A k \in 1..Len(entries) :
                /\ entries[k].number = k
                /\ entries[k].text = arg[k]

(***************************************************************************)
(* getAllPages against a remote that serves the database in several        *)
(* responses, up to the eligibility filter of its caller                   *)
(***************************************************************************)
InitPages ==
    /\ store \in Stores
    /\ notionModule \in {"paginating", "single"}
    /\ chunk \in 1..MaxChunk
    /\ aiModule = "stripping"
    /\ aiMemo = {}
    /\ run = 1
    /\ pc = "start"
    /\ fetched = << >>
    /\ pages = << >>
    /\ names = << >>
    /\ prompt = << >>
    /\ response = << >>
    /\ parsedData = << >>
    /\ i = 0
    /\ writes = << >>
    /\ genCalls = << >>
    /\ warned = FALSE
    /\ error = "none"
    /\ ended = << >>
    /\ allPages = << >>
    /\ hasMore = TRUE
    /\ startCursor = JUndef
    /\ requests = << >>
    /\ edits = << >>
    /\ films = NoFilms
    /\ traversal = NoTraversal
    /\ fn = "getAllPages"
    /\ arg = << >>
    /\ ret = NoRet

NextPages ==
    \/ QueryDatabase
    \/ QueryOk
    \/ QueryNotOk
    \/ FetchAndFilter

SpecPages == InitPages /\ [][NextPages]_vars

\* C11: for a collection the remote serves in any number of responses,
\* getAllPages returns the full sequence of its records, each exactly once
\* and in remote order, having followed the cursor until has_more is false.
C11_GetAllPagesReturnsEveryRecord ==
    (fn = "getAllPages" /\ pc = "filter")
    => /\ allPages = store
       /\ Len(requests) * chunk >= Len(store)

(***************************************************************************)
(* The workflow against a remote that serves the database in several       *)
(* responses; every target field of every record is empty                  *)
(***************************************************************************)
AllFieldsEmpty(records) ==
    \A k \in 1..Len(records) :
        \A name \in MappedFields : isEmpty(Prop(records[k], name))

InitChunked ==
    /\ InitPages
    /\ AllFieldsEmpty(store)

SpecChunked == InitChunked /\ [][Next]_vars

\* the query requests of the current run
RunRequests == {k \in 1..Len(requests) : requests[k].run = run}

\* C12: if a page-query request of getAllPages returns a non-success status,
\* getAllPages fails at once, without repeating the request and without
\* returning the pages gathered so far, and the run aborts with no generation
\* call and no record write.
C12_QueryFailureAbortsRun ==
    \A k \in RunRequests :
        requests[k].status = "failed"
        => /\ k = Len(requests)
           /\ \A j \in RunRequests :
                 j # k => requests[j].start_cursor # requests[k].start_cursor
           /\ pc = "failed"
           /\ error = "query"
           /\ fetched = << >>
           /\ pages = << >>
           /\ \A g \in 1..Len(genCalls) : genCalls[g] # run
           /\ RunWrites = {}

\* a later query request of a run has failed after records were gathered
C12_Witness ==
    /\ pc = "failed"
    /\ error = "query"
    /\ allPages # << >>
    /\ Cardinality(RunRequests) >= 2
    /\ requests[Len(requests)].status = "failed"

\* the generateContent calls of run r
GenCallsOf(r) == {g \in 1..Len(genCalls) : genCalls[g] = r}

\* C13: each run of batchAnnotate issues exactly one call to the generation
\* service; if that call fails it is never reissued, the run aborts, and no
\* record is written.
C13_OneGenerationCallPerRun ==
    /\ \A r \in 1..run : Cardinality(GenCallsOf(r)) <= 1
    /\ pc \in {"generate", "parse", "loop", "await_write"}
       => Cardinality(GenCallsOf(run)) = 1
    /\ (pc \in {"done", "failed"} /\ pages # << >>)
       => Cardinality(GenCallsOf(run)) = 1
    /\ error = "generate"
       => /\ pc = "failed"
          /\ RunWrites = {}
    /\ \A r \in 1..Len(ended) :
          ended[r].error = "generate"
          => \A k \in 1..Len(writes) : writes[k].run # r

\* the generation call of a second run has failed after a first run that
\* wrote records
C13_Witness ==
    /\ run = 2
    /\ error = "generate"
    /\ pc = "failed"
    /\ writes # << >>
    /\ Cardinality(GenCallsOf(2)) = 1

\* C14: if the write for the record at position k fails, the writes already
\* completed for positions before k stay applied, no write is issued for a
\* position after k, and the run terminates with an error.
C14_FailedWriteKeepsEarlierWrites ==
    \A f \in RunWrites :
        writes[f].status = "failed"
        => /\ f = Len(writes)
           /\ pc = "failed"
           /\ error = "write"
           /\ \A k \in RunWrites :
                 k # f
                 => /\ writes[k].pos < writes[f].pos
                    /\ writes[k].status = "done"
                    /\ store[writes[k].page.id]
                          = updatePage(writes[k].page, writes[k].updates)

\* the write of the second position has failed after the write of the first
\* was applied
C14_Witness ==
    /\ pc = "failed"
    /\ error = "write"
    /\ \E f \in RunWrites :
          /\ writes[f].status = "failed"
          /\ writes[f].pos >= 1
          /\ \E k \in RunWrites :
                /\ writes[k].pos < writes[f].pos
                /\ store[writes[k].page.id] # writes[k].page

\* C15: the write loop of batchAnnotate is strictly sequential: at most one
\* record write is in flight at any time, the write for a later position is
\* issued only after the write for every earlier position has completed,
\* and writes are issued in increasing position order.
C15_WritesAreSequential ==
    /\ Cardinality({k \in 1..Len(writes) : writes[k].status = "pending"}) <= 1
    /\ \A k \in 1..Len(writes) :
          writes[k].status = "pending"
          => k = Len(writes) /\ pc = "await_write"
    /\ \A j, k \in 1..Len(writes) :
          (j < k /\ writes[j].run = writes[k].run)
          => /\ writes[j].pos < writes[k].pos
             /\ writes[j].status = "done"

\* the write for the second position is in flight after the write for the
\* first has completed
C15_Witness ==
    /\ pc = "await_write"
    /\ \E j, k \in RunWrites :
          /\ writes[j].pos = 0 /\ writes[j].status = "done"
          /\ writes[k].pos = 1 /\ writes[k].status = "pending"

(***************************************************************************)
(* The workflow with an external editor of the database                    *)
(***************************************************************************)
\* the value a person gives to a field of the given kind
HumanValue(property) ==
    IF property.type = "multi_select"
    THEN [type |-> "multi_select", multi_select |-> << TagOf(<< "H" >>) >>]
    ELSE [type |-> "rich_text", rich_text |-> << Span(<< "h" >>) >>]

\* during a run somebody fills an empty target field of a record in the
\* remote database; nothing tells the run
ExternalEdit ==
    /\ pc \notin {"idle", "done", "failed"}
    /\ Len(edits) < MaxEdits
    /\ \E id \in DOMAIN store, name \in MappedFields :
          /\ isEmpty(Prop(store[id], name))
          /\ store' = [store EXCEPT ![id].properties[name] = HumanValue(@)]
          /\ edits' = Append(edits,
                             [run |-> run, page |-> id, field |-> name,
                              value |-> HumanValue(store[id].properties[name]),
                              at |-> pc, issued |-> Len(writes)])
    /\ UNCHANGED << aiModule, aiMemo, run, pc, fetched, pages, names, prompt,
                    response, parsedData, i, writes, genCalls, warned, error,
                    ended, fn, arg, ret, qVars, films, traversal >>

NextEdit ==
    \/ Next
    \/ ExternalEdit

SpecEdit == Init /\ [][NextEdit]_vars

\* C16: if an external editor gives a target field a value at any moment of
\* a run before the pipeline writes that record, the pipeline's write does
\* not overwrite that value.
C16_ExternalEditIsNotOverwritten ==
    \A e \in 1..Len(edits) :
        (\E k \in 1..Len(writes) :
            /\ k > edits[e].issued
            /\ writes[k].run = edits[e].run
            /\ writes[k].page.id = edits[e].page
            /\ writes[k].status = "done")
        => store[edits[e].page].properties[edits[e].field] = edits[e].value

(***************************************************************************)
(* The scripts as processes: the environment checks at module scope, the   *)
(* first remote call of the run, the handlers around it, the exit code     *)
(***************************************************************************)
Scripts == {"travel", "shopping", "cleanup", "cleanupTs"}

\* the environment variables a script reads for its credentials and ids
EnvNames(script) ==
    CASE script = "travel" -> {"NOTION_TOKEN", "TRAVEL_DATABASE_ID"}
      [] script = "shopping" ->
            {"NOTION_TOKEN", "MEAL_PLANNER_DATABASE_ID", "MEALS_DATABASE_ID",
             "SHOPPING_HELPER_DATABASE_ID", "GROCERY_SHOPPING_LIST_PAGE_ID",
             "TURKISH_SUPERMARKET_LIST_PAGE_ID",
             "ASIAN_SUPERMARKET_LIST_PAGE_ID"}
      [] script = "cleanup" -> {"NOTION_TOKEN", "NOTION_PAGE_ID"}
      [] script = "cleanupTs" -> {"NOTION_TOKEN", "NOTION_PAGE_ID"}

\* the if (!X) checks at the top of a script, in source order
EnvChecks(script) ==
    CASE script = "travel" -> << "NOTION_TOKEN", "TRAVEL_DATABASE_ID" >>
      [] script = "shopping" ->
            << "NOTION_TOKEN", "MEAL_PLANNER_DATABASE_ID", "MEALS_DATABASE_ID",
               "SHOPPING_HELPER_DATABASE_ID", "GROCERY_SHOPPING_LIST_PAGE_ID",
               "TURKISH_SUPERMARKET_LIST_PAGE_ID",
               "ASIAN_SUPERMARKET_LIST_PAGE_ID" >>
      [] script = "cleanup" -> << >>
      [] script = "cleanupTs" -> << "NOTION_TOKEN", "NOTION_PAGE_ID" >>

\* the scripts that report through the logger, the others use console.error
UsesLogger(script) == script \in {"travel", "shopping"}

\* Logger.shouldLog("error"): nothing is written when LOG_SILENT is true
shouldLog(silent) == ~silent

\* what the script writes to the error stream for a message
ErrorStream(script, silent, message) ==
    IF UsesLogger(script) /\ ~shouldLog(silent) THEN << >>
    ELSE << message >>

\* the checks from the k-th on: the first undefined variable ends the
\* process with process.exit(1)
RECURSIVE CheckEnv(_, _, _, _)
CheckEnv(script, env, silent, k) ==
    IF k > Len(EnvChecks(script)) THEN [exited |-> FALSE]
    ELSE IF EnvChecks(script)[k] \notin env
    THEN [exited |-> TRUE, exit |-> 1, requests |-> 0,
          stderr |-> ErrorStream(script, silent,
                                 [kind |-> "not defined",
                                  name |-> EnvChecks(script)[k]])]
    ELSE CheckEnv(script, env, silent, k + 1)

\* the remote accepts a call made with the credentials and the id it needs
RemoteAccepts(script, env, remoteOk) ==
    remoteOk /\ EnvNames(script) \subseteq env

\* the body of the script up to the outcome of its first remote call
RunBody(script, env, silent, remoteOk) ==
    IF RemoteAccepts(script, env, remoteOk)
    THEN [exited |-> TRUE, exit |-> 0, requests |-> 1, stderr |-> << >>]
    ELSE CASE UsesLogger(script) ->
                \* try { await run() } catch: logger.error, process.exit(1)
                [exited |-> TRUE, exit |-> 1, requests |-> 1,
                 stderr |-> ErrorStream(script, silent, [kind |-> "error"])]
           [] script = "cleanup" ->
                \* the catch block of deleteCheckedTodos logs and returns
                [exited |-> TRUE, exit |-> 0, requests |-> 1,
                 stderr |-> ErrorStream(script, silent, [kind |-> "error"])]
           [] script = "cleanupTs" ->
                \* the catch block logs and throws again: uncaught
                [exited |-> TRUE, exit |-> 1, requests |-> 1,
                 stderr |-> ErrorStream(script, silent, [kind |-> "error"])]

Process(script, env, silent, remoteOk) ==
    LET checked == CheckEnv(script, env, silent, 1)
    IN IF checked.exited THEN checked
       ELSE RunBody(script, env, silent, remoteOk)

InitScript ==
    /\ IdleWorkflow
    /\ films = NoFilms
    /\ traversal = NoTraversal
    /\ fn = "process"
    /\ arg \in UNION {[script : {sc}, env : SUBSET EnvNames(sc),
                        silent : BOOLEAN, remoteOk : BOOLEAN] :
                       sc \in Scripts}
    /\ ret = NoRet

StartProcess ==
    /\ fn = "process"
    /\ ret = NoRet
    /\ ret' = Returned(Process(arg.script, arg.env, arg.silent, arg.remoteOk))
    /\ UNCHANGED << wfVars, fn, arg, films, traversal >>

NextScript == StartProcess

SpecScript == InitScript /\ [][NextScript]_vars

\* C17: in every workflow script, when a mandatory environment variable is
\* missing the process reports it on the error stream and exits with a
\* non-zero code before issuing any request to an external service.
C17_MissingVariableIsFatal ==
    (fn = "process" /\ ret # NoRet /\ ~(EnvNames(arg.script) \subseteq arg.env))
    => /\ ret.v.exit # 0
       /\ ret.v.requests = 0
       /\ \E m \in 1..Len(ret.v.stderr) :
             /\ ret.v.stderr[m].kind = "not defined"
             /\ ret.v.stderr[m].name \in EnvNames(arg.script) \ arg.env

\* C18: a script's process exits with code 0 when its run completes and
\* with code 1 when any error escapes the run; a run in which a remote call
\* failed does not end with exit code 0.
C18_ExitCodeTellsFailure ==
    (fn = "process" /\ ret # NoRet)
    => /\ ret.v.exit \in {0, 1}
       /\ ret.v.exit = 0
             <=> RemoteAccepts(arg.script, arg.env, arg.remoteOk)

(***************************************************************************)
(* The films and TV workflow: the loop of run over the records that need   *)
(* metadata, fetchTMDBData and fetchOMDBData with their requests in flight *)
(***************************************************************************)
\* setTimeout(resolve, 300) at the end of a record
RateLimitDelay == 300

\* allResults.slice(0, 5): the results whose details are compared
GenreCandidates == 5

FilmRecords ==
    [imdb : BOOLEAN, genres : BOOLEAN, type : {"none", "Film", "TV Series"}]

\* searchMovies is false only for a record typed TV Series
SearchStart(rec) == IF rec.type = "TV Series" THEN "tv" ELSE "movie"

FilmsRec == films.records[films.pos + 1]

InitFilms ==
    /\ IdleWorkflow
    /\ traversal = NoTraversal
    /\ fn = "films"
    /\ arg = << >>
    /\ ret = NoRet
    /\ \E records \in UNION {[1..n -> FilmRecords] : n \in 0..MaxFilms} :
          films = [pc |-> "loop", records |-> records, pos |-> 0,
                   stage |-> "none", results |-> 0, tmdb |-> FALSE,
                   inFlight |-> {}, delays |-> << >>]

\* for (const page of needsMetadata): the call of fetchTMDBData
FilmsPick ==
    /\ films.pc = "loop"
    /\ films.pos < Len(films.records)
    /\ films' = [films EXCEPT !.pc = IF FilmsRec.imdb THEN "find"
                                     ELSE SearchStart(FilmsRec),
                              !.results = 0, !.tmdb = FALSE]
    /\ UNCHANGED << wfVars, fn, arg, ret, traversal >>

\* await fetch(...): one request leaves and the function waits for it
FilmsFetch ==
    /\ films.pc \in {"find", "find_details", "movie", "tv", "details", "omdb"}
    /\ films' = [films EXCEPT !.pc = "await", !.stage = films.pc,
                              !.inFlight = {[kind |-> films.pc, k |-> 0]}]
    /\ UNCHANGED << wfVars, fn, arg, ret, traversal >>

\* where a search that found n results goes on
AfterSearch(rec, stage, n) ==
    IF n > 0 THEN (IF rec.genres THEN "fanout" ELSE "details")
    ELSE IF stage = "movie" /\ rec.type # "Film" THEN "tv"
    ELSE "after_tmdb"

FilmsResponse ==
    /\ films.pc = "await"
    /\ \E found \in BOOLEAN, n \in 0..MaxResults :
          films' =
            CASE films.stage = "find" ->
                   [films EXCEPT !.inFlight = {},
                                 !.pc = IF found THEN "find_details"
                                        ELSE SearchStart(FilmsRec)]
              [] films.stage \in {"find_details", "details"} ->
                   [films EXCEPT !.inFlight = {}, !.tmdb = TRUE,
                                 !.pc = "after_tmdb"]
              [] films.stage \in {"movie", "tv"} ->
                   [films EXCEPT !.inFlight = {}, !.results = n,
                                 !.pc = AfterSearch(FilmsRec, films.stage, n)]
              [] films.stage = "omdb" ->
                   [films EXCEPT !.inFlight = {}, !.pc = "update"]
    /\ UNCHANGED << wfVars, fn, arg, ret, traversal >>

\* the request fails: the catch block of the fetching function returns the
\* empty result
FilmsFetchFails ==
    /\ films.pc = "await"
    /\ films' = [films EXCEPT !.inFlight = {},
                              !.pc = IF films.stage = "omdb" THEN "update"
                                     ELSE "after_tmdb"]
    /\ UNCHANGED << wfVars, fn, arg, ret, traversal >>

\* Promise.all(allResults.slice(0, 5).map(async r => await fetch(...))):
\* every callback runs up to its fetch before the first response is awaited
FilmsFanout ==
    /\ films.pc = "fanout"
    /\ films' = [films EXCEPT
                   !.pc = "await_all",
                   !.inFlight = {[kind |-> "genre_details", k |-> k] :
                                 k \in 1..(IF films.results < GenreCandidates
                                           THEN films.results
                                           ELSE GenreCandidates)}]
    /\ UNCHANGED << wfVars, fn, arg, ret, traversal >>

\* one of the detail requests settles (its own catch block absorbs a
\* failure); Promise.all resolves when the last one has settled
FilmsFanoutResponse ==
    /\ films.pc = "await_all"
    /\ \E r \in films.inFlight :
          films' = [films EXCEPT !.inFlight = films.inFlight \ {r},
                                !.pc = IF films.inFlight = {r} THEN "details"
                                       ELSE "await_all"]
    /\ UNCHANGED << wfVars, fn, arg, ret, traversal >>

\* after fetchTMDBData: warn and skip the record, or go on to OMDb and the
\* update of the record
FilmsAfterTMDB ==
    /\ films.pc = "after_tmdb"
    /\ films' = [films EXCEPT
                   !.pc = IF ~films.tmdb /\ FilmsRec.type = "none" THEN "delay"
                          ELSE IF FilmsRec.imdb \/ films.tmdb THEN "omdb"
                          ELSE "update"]
    /\ UNCHANGED << wfVars, fn, arg, ret, traversal >>

\* notion.pages.update of the record (a failure is logged and absorbed)
FilmsUpdate ==
    /\ films.pc = "update"
    /\ films' = [films EXCEPT !.pc = "delay"]
    /\ UNCHANGED << wfVars, fn, arg, ret, traversal >>

\* await new Promise(resolve => setTimeout(resolve, 300)), next record
FilmsDelay ==
    /\ films.pc = "delay"
    /\ films' = [films EXCEPT !.pc = "loop", !.pos = films.pos + 1,
                              !.delays = Append(films.delays, RateLimitDelay)]
    /\ UNCHANGED << wfVars, fn, arg, ret, traversal >>

FilmsDone ==
    /\ films.pc = "loop"
    /\ films.pos = Len(films.records)
    /\ films' = [films EXCEPT !.pc = "done"]
    /\ UNCHANGED << wfVars, fn, arg, ret, traversal >>

NextFilms ==
    \/ FilmsPick
    \/ FilmsFetch
    \/ FilmsResponse
    \/ FilmsFetchFails
    \/ FilmsFanout
    \/ FilmsFanoutResponse
    \/ FilmsAfterTMDB
    \/ FilmsUpdate
    \/ FilmsDelay
    \/ FilmsDone

SpecFilms == InitFilms /\ [][NextFilms]_vars

\* C19: the films workflow issues its external calls one at a time: at no
\* moment are two requests to the movie databases in flight together, and
\* consecutive records are separated by the fixed delay.
C19_OneRequestInFlight ==
    fn = "films"
    => /\ Cardinality(films.inFlight) <= 1
       /\ Len(films.delays) = films.pos
       /\ \A d \in 1..Len(films.delays) : films.delays[d] = RateLimitDelay

(***************************************************************************)
(* The recursive getAllBlocks: its call stack, one frame per call, and the *)
(* array allBlocks that every call appends to                              *)
(***************************************************************************)
\* the id of the page whose blocks are listed
PageId == 0

\* the ancestors of block b in the tree given by its parent function
RECURSIVE AncestorsOf(_, _, _)
AncestorsOf(parent, b, steps) ==
    IF b = PageId \/ steps = 0 THEN {}
    ELSE {parent[b]} \cup AncestorsOf(parent, parent[b], steps - 1)

\* the page trees: every block hangs below the page
BlockTrees ==
    UNION {{parent \in [1..n -> 0..n] :
              \A b \in 1..n : PageId \in AncestorsOf(parent, b, n)} :
           n \in 0..MaxBlocks}

\* the children of a block in the order the remote keeps them
RECURSIVE ChildrenFrom(_, _, _)
ChildrenFrom(parent, b, k) ==
    IF k > Len(parent) THEN << >>
    ELSE (IF parent[k] = b THEN << k >> ELSE << >>)
         \o ChildrenFrom(parent, b, k + 1)

\* the has_children flag of a block object
has_children(parent, b) == \E k \in 1..Len(parent) : parent[k] = b

\* the results of blocks.children.list: the first response of the remote,
\* which serves at most size blocks; the code asks for no further one
ListResults(parent, b, size) ==
    LET all == ChildrenFrom(parent, b, 1)
    IN SubSeq(all, 1, IF Len(all) < size THEN Len(all) ELSE size)

\* a call of getAllBlocks before the response to its list request
NewFrame(b) == [block |-> b, listed |-> FALSE, results |-> << >>, idx |-> 1]

TopFrame == traversal.stack[Len(traversal.stack)]

InitBlocks ==
    /\ IdleWorkflow
    /\ films = NoFilms
    /\ fn = "getAllBlocks"
    /\ arg = << >>
    /\ ret = NoRet
    /\ \E parent \in BlockTrees, size \in 1..MaxChunk :
          traversal = [pc |-> "running", parent |-> parent, size |-> size,
                       stack |-> << NewFrame(PageId) >>, allBlocks |-> << >>]

\* const res = await notion.blocks.children.list({ block_id: blockId })
ListChildren ==
    /\ traversal.pc = "running"
    /\ ~TopFrame.listed
    /\ traversal' =
         [traversal EXCEPT
            !.stack[Len(traversal.stack)] =
                [TopFrame EXCEPT !.listed = TRUE,
                                 !.results = ListResults(traversal.parent,
                                                         TopFrame.block,
                                                         traversal.size)]]
    /\ UNCHANGED << wfVars, fn, arg, ret, films >>

\* the list request rejects: no call of the chain catches it
ListChildrenFails ==
    /\ traversal.pc = "running"
    /\ ~TopFrame.listed
    /\ traversal' = [traversal EXCEPT !.pc = "failed", !.stack = << >>]
    /\ UNCHANGED << wfVars, fn, arg, ret, films >>

\* the mutant of VisitBlock: the call for the children is put off until the
\* calls already running have returned
VisitBlockDeferred ==
    /\ traversal.pc = "running"
    /\ TopFrame.listed
    /\ TopFrame.idx <= Len(TopFrame.results)
    /\ LET b == TopFrame.results[TopFrame.idx]
            top == [TopFrame EXCEPT !.idx = TopFrame.idx + 1]
            rest == SubSeq(traversal.stack, 1, Len(traversal.stack) - 1)
       IN traversal' =
            [traversal EXCEPT
               !.allBlocks = Append(traversal.allBlocks, b),
               !.stack = IF has_children(traversal.parent, b)
                         THEN << NewFrame(b) >> \o rest \o << top >>
                         ELSE rest \o << top >>]
    /\ UNCHANGED << wfVars, fn, arg, ret, films >>

\* one turn of for (const block of res.results): push the block, then
\* call getAllBlocks for it when it has children
VisitBlock ==
    /\ traversal.pc = "running"
    /\ TopFrame.listed
    /\ TopFrame.idx <= Len(TopFrame.results)
    /\ LET b == TopFrame.results[TopFrame.idx]
            top == [TopFrame EXCEPT !.idx = TopFrame.idx + 1]
            rest == SubSeq(traversal.stack, 1, Len(traversal.stack) - 1)
       IN traversal' =
            [traversal EXCEPT
               !.allBlocks = Append(traversal.allBlocks, b),
               !.stack = IF has_children(traversal.parent, b)
                         THEN rest \o << top, NewFrame(b) >>
                         ELSE rest \o << top >>]
    /\ UNCHANGED << wfVars, fn, arg, ret, films >>

\* return allBlocks: the call ends, its caller goes on with its loop
ReturnBlocks ==
    /\ traversal.pc = "running"
    /\ TopFrame.listed
    /\ TopFrame.idx > Len(TopFrame.results)
    /\ traversal' =
         [traversal EXCEPT
            !.stack = SubSeq(traversal.stack, 1, Len(traversal.stack) - 1),
            !.pc = IF Len(traversal.stack) = 1 THEN "done" ELSE "running"]
    /\ UNCHANGED << wfVars, fn, arg, ret, films >>

NextBlocks ==
    \/ ListChildren
    \/ ListChildrenFails
    \/ VisitBlock
    \/ ReturnBlocks

SpecBlocks == InitBlocks /\ [][NextBlocks]_vars

\* the positions of the returned array
Positions == 1..Len(traversal.allBlocks)

BlockAt(p) == traversal.allBlocks[p]

IsDescendant(d, a) ==
    a \in AncestorsOf(traversal.parent, d, Len(traversal.parent))

StepsBesideParse ==
    \/ QueryDatabase
    \/ QueryOk
    \/ QueryNotOk
    \/ FetchAndFilter
    \/ BuildPrompt
    \/ GenerateReturns
    \/ GenerateFails
    \/ LoopEnd
    \/ RecordStep
    \/ WriteDone
    \/ WriteFails
    \/ NextRun

\* weak fairness of ParseValidate, written out: the step is enabled exactly
\* when pc is parse
ParseValidateIsTaken ==
    []<>(pc # "parse") \/ []<><<ParseValidate>>_vars

\* the workflow linked with the getAllPages that loops while hasMore
InitTerminates == InitChunked /\ notionModule = "paginating"

SpecTerminates ==
    /\ InitTerminates
    /\ [][Next]_vars
    /\ WF_vars(StepsBesideParse)
    /\ ParseValidateIsTaken

\* the run has ended, in completion or with an error
RunEnded == pc \in {"done", "failed"}

\* the order of the steps of one run; the pagination loop is one step
StepRank ==
    CASE pc \in {"start", "await_query"} -> 1
      [] pc = "filter" -> 2
      [] pc = "build_prompt" -> 3
      [] pc = "generate" -> 4
      [] pc = "parse" -> 5
      [] pc \in {"loop", "await_write"} -> 6
      [] pc \in {"done", "failed"} -> 7

\* C21: every run terminates, in completion or with an error; a query
\* response that continues the pagination loop brings at least one more
\* record, and within a run the steps never go back and the per-record
\* loop handles no record twice.
C21_EveryRunTerminates ==
    /\ (~RunEnded) ~> RunEnded
    /\ [][(run' = run /\ pc = "await_query" /\ pc' = "start")
            => Len(allPages') > Len(allPages)]_vars
    /\ [][(run' = run) => (StepRank' >= StepRank /\ i' >= i)]_vars
    /\ [](\A k, m \in RunWrites : writes[k].pos = writes[m].pos => k = m)

\* a run that needed several query responses and wrote a record has ended
C21_Witness ==
    /\ pc = "done"
    /\ Cardinality(RunRequests) >= 2
    /\ Cardinality(RunWrites) >= 2

(***************************************************************************)
(* optimizeRoute of the pub crawl workflow, on a grid of coordinates       *)
(***************************************************************************)
\* calculateDistance between two positions: on the grid the square of the
\* straight-line distance, which is 0 exactly for equal positions and
\* symmetric as the haversine distance is
calculateDistance(a, b) ==
    (a.lat - b.lat) * (a.lat - b.lat) + (a.lon - b.lon) * (a.lon - b.lon)

\* let nearestDist = Infinity: above every distance on the grid
Infinity == 2 * (MaxCoord + 1) * (MaxCoord + 1) + 1

\* the mutant of IsNearer: a pub as near as the nearest so far replaces it
IsNearerOrEqual(dist, nearestDist) == dist <= nearestDist

\* if (dist < nearestDist)
IsNearer(dist, nearestDist) == dist < nearestDist

\* the for loop over unvisited from position k on (positions from 1),
\* with the nearestIdx and nearestDist found so far
RECURSIVE NearestFrom(_, _, _, _, _)
NearestFrom(current, unvisited, k, nearestIdx, nearestDist) ==
    IF k > Len(unvisited) THEN nearestIdx
    ELSE LET dist == calculateDistance(current, unvisited[k])
         IN IF IsNearer(dist, nearestDist)
            THEN NearestFrom(current, unvisited, k + 1, k, dist)
            ELSE NearestFrom(current, unvisited, k + 1, nearestIdx, nearestDist)

\* the mutant of Splice: the first element is removed
SpliceHead(seq, idx) == SubSeq(seq, 2, Len(seq))

\* unvisited.splice(nearestIdx, 1): the sequence without position idx
Splice(seq, idx) == SubSeq(seq, 1, idx - 1) \o SubSeq(seq, idx + 1, Len(seq))

\* the while loop of optimizeRoute from the current position on
RECURSIVE RouteFrom(_, _, _, _)
RouteFrom(stationCoords, current, unvisited, order) ==
    IF Len(unvisited) = 0 THEN << >>
    ELSE LET nearestIdx == NearestFrom(current, unvisited, 1, 1, Infinity)
             nearest == unvisited[nearestIdx]
         IN << [pub |-> nearest,
                distanceFromStation |->
                    calculateDistance(stationCoords, nearest),
                routeOrder |-> order] >>
            \o RouteFrom(stationCoords, [lat |-> nearest.lat, lon |-> nearest.lon],
                         Splice(unvisited, nearestIdx), order + 1)

optimizeRoute(stationCoords, pubs) == RouteFrom(stationCoords, stationCoords, pubs, 1)

\* the station is any position; a pub is pushed only when place.lat and
\* place.lon are truthy, so neither is 0
StationPositions == [lat : 0..MaxCoord, lon : 0..MaxCoord]

PubPositions == [lat : 1..MaxCoord, lon : 1..MaxCoord]

\* the pubs with coordinates, each with the place of its page in the input
PubLists ==
    UNION {{[k \in 1..n |-> [page |-> k, lat |-> at[k].lat, lon |-> at[k].lon]] :
              at \in [1..n -> PubPositions]} :
           n \in 1..MaxPubs}

InitRoute ==
    /\ IdleWorkflow
    /\ films = NoFilms
    /\ traversal = NoTraversal
    /\ fn = "optimizeRoute"
    /\ arg \in [stationCoords : StationPositions, pubs : PubLists]
    /\ ret = NoRet

CallOptimizeRoute ==
    /\ fn = "optimizeRoute"
    /\ ret = NoRet
    /\ ret' = Returned(optimizeRoute(arg.stationCoords, arg.pubs))
    /\ UNCHANGED << wfVars, fn, arg, films, traversal >>

NextRoute == CallOptimizeRoute

SpecRoute == InitRoute /\ [][NextRoute]_vars

\* the route has been returned
RouteReturned == fn = "optimizeRoute" /\ ret # NoRet

\* the position the k-th choice of the route was made from
PositionBefore(k) == IF k = 1 THEN arg.stationCoords ELSE ret.v[k - 1].pub

\* C22: for every station position and every non-empty list of N pubs the
\* route contains each input pub exactly once and its routeOrder values
\* are 1..N in visiting order.
C22_RouteVisitsEveryPubOnce ==
    RouteReturned
    => /\ Len(ret.v) = Len(arg.pubs)
       /\ \A p \in 1..Len(arg.pubs) :
             Cardinality({k \in 1..Len(ret.v) : ret.v[k].pub = arg.pubs[p]}) = 1
       /\ \A k \in 1..Len(ret.v) : ret.v[k].routeOrder = k

\* a route over the largest list whose first stop is not the first pub
C22_Witness ==
    /\ RouteReturned
    /\ Len(arg.pubs) = MaxPubs
    /\ ret.v[1].pub.page # 1

\* C23: at every step the pub chosen is an unvisited pub at minimum
\* distance from the current position, and among equally distant pubs the
\* one earliest in the remaining input order.
C23_NearestUnvisitedIsChosen ==
    RouteReturned
    => \A k \in 1..Len(ret.v) : \A m \in k..Len(ret.v) :
          LET chosen == calculateDistance(PositionBefore(k), ret.v[k].pub)
              other == calculateDistance(PositionBefore(k), ret.v[m].pub)
          IN /\ chosen <= other
             /\ (chosen = other /\ m # k)
                  => ret.v[k].pub.page < ret.v[m].pub.page

\* a step with two unvisited pubs at the same smallest distance, after the
\* first step
C23_Witness ==
    /\ RouteReturned
    /\ \E k \in 2..Len(ret.v) : \E m \in (k + 1)..Len(ret.v) :
          calculateDistance(PositionBefore(k), ret.v[k].pub)
            = calculateDistance(PositionBefore(k), ret.v[m].pub)

(***************************************************************************)
(* The shopping list cleanup: deleteCheckedTodos over the page tree, the   *)
(* remote archiving blocks and appending to-dos                            *)
(***************************************************************************)
\* a block of the page: its type, the checked flag of a to-do, its parent
CleanupBlocks(n) ==
    [type : {"to_do"}, checked : BOOLEAN, parent : 0..n]
    \cup [type : {"heading_2", "paragraph", "bulleted_list_item"},
          checked : {FALSE}, parent : 0..n]

\* the pages: block k hangs below the page or below an earlier block, and
\* siblings are kept in the order of their ids
CleanupPages ==
    UNION {{tree \in [1..n -> CleanupBlocks(n)] :
              \A k \in 1..n : tree[k].parent < k} :
           n \in 0..MaxTodoBlocks}

ParentsOf(tree) == [k \in 1..Len(tree) |-> tree[k].parent]

\* the block is in the trash: it or a block above it has been deleted
InTrash(tree, archived, b) ==
    \/ b \in archived
    \/ AncestorsOf(ParentsOf(tree), b, Len(tree)) \cap archived # {}

\* the strict remote rejects a request that names a block in the trash,
\* the lenient remote serves it
RemoteRejects(remote, tree, st, b) ==
    remote = "strict" /\ b # PageId /\ InTrash(tree, st.archived, b)

\* findTodoOrParagraphsAfterHeading from position j on (positions from 1)
RECURSIVE FindTodoFrom(_, _, _, _)
FindTodoFrom(tree, allBlocks, j, paragraphs) ==
    IF j > Len(allBlocks) THEN [hasTodo |-> FALSE, paragraphs |-> paragraphs]
    ELSE LET nextBlock == tree[allBlocks[j]]
         IN IF nextBlock.type = "paragraph"
            THEN FindTodoFrom(tree, allBlocks, j + 1,
                              Append(paragraphs, allBlocks[j]))
            ELSE IF nextBlock.type = "to_do"
            THEN [hasTodo |-> TRUE, paragraphs |-> paragraphs]
            ELSE [hasTodo |-> FALSE, paragraphs |-> paragraphs]

findTodoOrParagraphsAfterHeading(tree, allBlocks, headingIndex) ==
    FindTodoFrom(tree, allBlocks, headingIndex + 1, << >>)

\* addEmptyTodoAfterHeading: the paragraphs are deleted one by one, then a
\* to-do is appended after the heading
RECURSIVE DeleteParagraphs(_, _, _, _, _)
DeleteParagraphs(remote, tree, paragraphs, k, st) ==
    IF k > Len(paragraphs) THEN st
    ELSE IF RemoteRejects(remote, tree, st, paragraphs[k])
    THEN [st EXCEPT !.threw = TRUE]
    ELSE DeleteParagraphs(remote, tree, paragraphs, k + 1,
                          [st EXCEPT !.archived = @ \cup {paragraphs[k]}])

addEmptyTodoAfterHeading(remote, tree, parentBlockId, heading, paragraphs, st) ==
    LET deleted == DeleteParagraphs(remote, tree, paragraphs, 1, st)
    IN IF deleted.threw THEN deleted
       ELSE IF RemoteRejects(remote, tree, deleted, parentBlockId)
       THEN [deleted EXCEPT !.threw = TRUE]
       ELSE [deleted EXCEPT !.added = @ \cup {heading}]

\* processEmptyHeadings from position h on (positions from 1)
RECURSIVE processEmptyHeadings(_, _, _, _, _, _)
processEmptyHeadings(remote, tree, parentBlockId, allBlocks, h, st) ==
    IF h > Len(allBlocks) \/ st.threw THEN st
    ELSE IF tree[allBlocks[h]].type # "heading_2"
    THEN processEmptyHeadings(remote, tree, parentBlockId, allBlocks, h + 1, st)
    ELSE LET found == findTodoOrParagraphsAfterHeading(tree, allBlocks, h)
         IN processEmptyHeadings(
                remote, tree, parentBlockId, allBlocks, h + 1,
                IF found.hasTodo THEN st
                ELSE addEmptyTodoAfterHeading(remote, tree, parentBlockId,
                                              allBlocks[h], found.paragraphs,
                                              st))

\* deleteCheckedTodoBlock: a checked to-do is deleted on the remote
deleteCheckedTodoBlock(remote, tree, b, st) ==
    IF tree[b].type # "to_do" \/ ~tree[b].checked THEN st
    ELSE IF RemoteRejects(remote, tree, st, b) THEN [st EXCEPT !.threw = TRUE]
    ELSE [st EXCEPT !.archived = @ \cup {b}]

\* the catch block: cleanup.js logs the error and returns, the typed
\* script logs it and throws it again
CatchBlock(script, st) ==
    IF st.threw /\ script = "cleanup"
    THEN [st EXCEPT !.threw = FALSE, !.logged = TRUE]
    ELSE st

RECURSIVE deleteCheckedTodos(_, _, _, _, _)
RECURSIVE ForEachBlock(_, _, _, _, _, _)
\* for (const block of allBlocks) from position k on: the deletion, then
\* processNestedBlocks
ForEachBlock(script, remote, tree, allBlocks, k, st) ==
    IF k > Len(allBlocks) THEN st
    ELSE LET block == allBlocks[k]
             deleted == deleteCheckedTodoBlock(remote, tree, block, st)
         IN IF deleted.threw THEN deleted
            ELSE LET nested ==
                       IF has_children(ParentsOf(tree), block)
                       THEN deleteCheckedTodos(script, remote, tree, block,
                                               deleted)
                       ELSE deleted
                 IN IF nested.threw THEN nested
                    ELSE ForEachBlock(script, remote, tree, allBlocks, k + 1,
                                      nested)

\* deleteCheckedTodos(parentBlockId): getAllBlocks lists every child, the
\* loop, processEmptyHeadings on the same list, the catch block
deleteCheckedTodos(script, remote, tree, parentBlockId, st) ==
    IF RemoteRejects(remote, tree, st, parentBlockId)
    THEN CatchBlock(script, [st EXCEPT !.threw = TRUE])
    ELSE LET allBlocks == ChildrenFrom(ParentsOf(tree), parentBlockId, 1)
             looped == ForEachBlock(script, remote, tree, allBlocks, 1,
                                    [st EXCEPT !.lists = @ \cup {parentBlockId}])
         IN CatchBlock(script,
                       processEmptyHeadings(remote, tree, parentBlockId,
                                            allBlocks, 1, looped))

\* the remote before the run: nothing deleted, nothing appended
CleanRemote ==
    [archived |-> {}, added |-> {}, lists |-> {}, threw |-> FALSE,
     logged |-> FALSE]

InitCleanup ==
    /\ IdleWorkflow
    /\ films = NoFilms
    /\ traversal = NoTraversal
    /\ fn = "deleteCheckedTodos"
    /\ arg \in [script : {"cleanup", "cleanupTs"},
                 remote : {"lenient", "strict"},
                 tree : CleanupPages]
    /\ ret = NoRet

RunCleanup ==
    /\ fn = "deleteCheckedTodos"
    /\ ret = NoRet
    /\ ret' = Returned(deleteCheckedTodos(arg.script, arg.remote, arg.tree,
                                          PageId, CleanRemote))
    /\ UNCHANGED << wfVars, fn, arg, films, traversal >>

NextCleanup == RunCleanup

SpecCleanup == InitCleanup /\ [][NextCleanup]_vars

\* the run has come to its end and no error was thrown or logged
CleanupCompleted ==
    fn = "deleteCheckedTodos" /\ ret # NoRet /\ ~ret.v.threw /\ ~ret.v.logged

\* the block is no longer on the page after the run
IsDeleted(b) == InTrash(arg.tree, ret.v.archived, b)

\* C24: among to-do blocks a cleanup run deletes exactly the checked ones:
\* every checked to-do at any depth is deleted and no unchecked to-do is.
C24_ExactlyCheckedTodosDeleted ==
    CleanupCompleted
    => \A b \in 1..Len(arg.tree) :
          arg.tree[b].type = "to_do" => (IsDeleted(b) <=> arg.tree[b].checked)

\* the blocks of the list below parent after the run: the children still
\* on the page, and a to-do after each heading that one was appended to
RECURSIVE ListAfterRun(_, _)
ListAfterRun(children, k) ==
    IF k > Len(children) THEN << >>
    ELSE (IF children[k] \in ret.v.archived THEN << >>
          ELSE << arg.tree[children[k]].type >>)
         \o (IF children[k] \in ret.v.added THEN << "to_do" >> ELSE << >>)
         \o ListAfterRun(children, k + 1)

\* a to-do follows position h before the next block that is neither a
\* paragraph nor a to-do
RECURSIVE TodoFollows(_, _)
TodoFollows(list, j) ==
    IF j > Len(list) THEN FALSE
    ELSE IF list[j] = "to_do" THEN TRUE
    ELSE IF list[j] = "paragraph" THEN TodoFollows(list, j + 1)
    ELSE FALSE

\* C25: after a cleanup run that completes without error, every heading_2
\* of each processed block list is followed, before the next block that is
\* neither a paragraph nor a to-do, by a to-do that still exists.
C25_HeadingKeepsATodo ==
    CleanupCompleted
    => \A p \in ret.v.lists :
          (p = PageId \/ ~IsDeleted(p))
          => LET list == ListAfterRun(ChildrenFrom(ParentsOf(arg.tree), p, 1), 1)
             IN \A h \in 1..Len(list) :
                   list[h] = "heading_2" => TodoFollows(list, h + 1)

(***************************************************************************)
(* The repeat event generator: the calendar of Date, getNthWeekdayOfMonth, *)
(* the loop of run over the months, the events database                    *)
(***************************************************************************)
\* the days of the months 0..11 of a year without a leap day
MonthLengths == << 31, 28, 31, 30, 31, 30, 31, 31, 30, 31, 30, 31 >>

MonthLen(month) == MonthLengths[month + 1]

\* end.setMonth(end.getMonth() + 12)
MonthsAhead == 12

\* Date normalises a month past December and a day past the end of the
\* month into the following year and month
RECURSIVE NormalDate(_, _, _)
NormalDate(y, m, d) ==
    IF m > 11 THEN NormalDate(y + 1, m - 12, d)
    ELSE IF d > MonthLen(m) THEN NormalDate(y, m + 1, d - MonthLen(m))
    ELSE [y |-> y, m |-> m, d |-> d]

\* date.setMonth(month)
setMonth(date, month) == NormalDate(date.y, month, date.d)

\* cursor <= end, both at the same time of day
DateLeq(a, b) ==
    \/ a.y < b.y
    \/ a.y = b.y /\ a.m < b.m
    \/ a.y = b.y /\ a.m = b.m /\ a.d <= b.d

RECURSIVE DaysBeforeMonth(_)
DaysBeforeMonth(month) ==
    IF month = 0 THEN 0 ELSE DaysBeforeMonth(month - 1) + MonthLen(month - 1)

\* d.getDay(), when the first day of year 0 is the weekday firstDay
getDay(firstDay, y, m, d) ==
    (firstDay + 365 * y + DaysBeforeMonth(m) + d - 1) % 7

\* the names of the Week ordinal select and Number(ordinal)
Ordinals == {"1", "2", "3", "4", "5", "last"}

OrdinalNumber(ordinal) ==
    CASE ordinal = "1" -> 1
      [] ordinal = "2" -> 2
      [] ordinal = "3" -> 3
      [] ordinal = "4" -> 4
      [] ordinal = "5" -> 5

\* the while loop of getNthWeekdayOfMonth from the day d on, which falls on
\* dayOfWeek: the days of the month that fall on the weekday
RECURSIVE MatchesFrom(_, _, _, _)
MatchesFrom(month, d, dayOfWeek, weekday) ==
    IF d > MonthLen(month) THEN << >>
    ELSE (IF dayOfWeek = weekday THEN << d >> ELSE << >>)
         \o MatchesFrom(month, d + 1, (dayOfWeek + 1) % 7, weekday)

\* getNthWeekdayOfMonth: the last match or the one at index
\* Number(ordinal) - 1, or null
getNthWeekdayOfMonth(firstDay, year, month, weekday, ordinal) ==
    LET matches == MatchesFrom(month, 1, getDay(firstDay, year, month, 1),
                               weekday)
        at == IF ordinal = "last" THEN Len(matches)
              ELSE OrdinalNumber(ordinal)
    IN IF at > Len(matches) \/ at = 0 THEN JNull
       ELSE [y |-> year, m |-> month, d |-> matches[at]]

\* the day before
PreviousDay(date) ==
    IF date.d > 1 THEN [date EXCEPT !.d = date.d - 1]
    ELSE IF date.m > 0
    THEN [y |-> date.y, m |-> date.m - 1, d |-> MonthLen(date.m - 1)]
    ELSE [y |-> date.y - 1, m |-> 11, d |-> MonthLen(11)]

\* date.toISOString().split("T")[0] of a local midnight: the same day in
\* a zone at or behind UTC, the day before in a zone ahead of UTC
ISODate(zone, date) == IF zone = "ahead" THEN PreviousDay(date) ELSE date

\* templateId_date
GeneratedId(templateId, zone, date) ==
    [template |-> templateId, date |-> ISODate(zone, date)]

\* the mutant of generatedEventExists: the query finds nothing
generatedEventMissing(db, generatedId) == FALSE

\* generatedEventExists: the query for the generated id has a result
generatedEventExists(db, generatedId) ==
    \E k \in 1..Len(db) : db[k].generatedId = generatedId

\* the accepted creations when the remote never fails
Unlimited == MonthsAhead + 2

\* the while loop of run for one template from cursor on; quota is the
\* number of creations the remote accepts before createEvent throws
RECURSIVE MonthsFrom(_, _, _, _, _)
MonthsFrom(in, db, cursor, end, quota) ==
    IF ~DateLeq(cursor, end) THEN [db |-> db, failed |-> FALSE]
    ELSE LET next == setMonth(cursor, cursor.m + 1)
             date == getNthWeekdayOfMonth(in.firstDay, cursor.y, cursor.m,
                                          in.weekday, in.ordinal)
         IN IF cursor.m \in in.excluded \/ date = JNull
            THEN MonthsFrom(in, db, next, end, quota)
            ELSE LET generatedId == GeneratedId(in.template, in.zone, date)
                 IN IF generatedEventExists(db, generatedId)
                    THEN MonthsFrom(in, db, next, end, quota)
                    ELSE IF quota = 0
                    THEN [db |-> db, failed |-> TRUE]
                    ELSE MonthsFrom(in,
                                    Append(db, [generatedId |-> generatedId,
                                                date |-> date]),
                                    next, end, quota - 1)

\* run() started on the day now
RunGenerator(in, db, now, quota) ==
    MonthsFrom(in, db, now, setMonth(now, now.m + MonthsAhead), quota)

\* the runs one after the other, each on the day the previous one ran or
\* later; only the first one meets the failing remote
RECURSIVE RunsFrom(_, _, _, _, _)
RunsFrom(in, db, now, k, outcomes) ==
    IF k > Len(in.gaps) THEN [db |-> db, outcomes |-> outcomes]
    ELSE LET today == setMonth(now, now.m + in.gaps[k])
             result == RunGenerator(in, db, today,
                                    IF k = 1 THEN in.quota ELSE Unlimited)
         IN RunsFrom(in, result.db, today, k + 1,
                     Append(outcomes, [now |-> today,
                                       before |-> Len(db),
                                       failed |-> result.failed]))

\* the days a first run starts on: the first and the last four days of
\* every month
StartDays ==
    UNION {{[y |-> 0, m |-> m, d |-> d] :
              d \in {1} \cup ((MonthLen(m) - 3)..MonthLen(m))} :
           m \in 0..11}

\* WEEKDAY_MAP: Monday and Friday
Weekdays == {1, 5}

InitEvents ==
    /\ IdleWorkflow
    /\ films = NoFilms
    /\ traversal = NoTraversal
    /\ fn = "run"
    /\ arg \in [template : {"t"}, firstDay : {0}, zone : {"behind", "ahead"},
                 weekday : Weekdays, ordinal : Ordinals,
                 excluded : {{}, {2}},
                 start : StartDays,
                 gaps : {g \in [1..MaxRuns -> {0, 1}] : g[1] = 0},
                 quota : {0, MaxCreates, Unlimited}]
    /\ ret = NoRet

RunEvents ==
    /\ fn = "run"
    /\ ret = NoRet
    /\ ret' = Returned(RunsFrom(arg, << >>, arg.start, 1, << >>))
    /\ UNCHANGED << wfVars, fn, arg, films, traversal >>

NextEvents == RunEvents

SpecEvents == InitEvents /\ [][NextEvents]_vars

EventsReturned == fn = "run" /\ ret # NoRet

\* C26: across sequential runs an event is created only when no event with
\* its generated id exists, so at most one event per generated id exists.
C26_OneEventPerGeneratedId ==
    EventsReturned
    => \A k, m \in 1..Len(ret.v.db) :
          ret.v.db[k].generatedId = ret.v.db[m].generatedId => k = m

\* a later run found events of an earlier run and created further ones
C26_Witness ==
    /\ EventsReturned
    /\ \E k \in 2..Len(ret.v.outcomes) :
          /\ ret.v.outcomes[k].before > 0
          /\ ~ret.v.outcomes[k].failed
    /\ Len(ret.v.db) > ret.v.outcomes[Len(ret.v.outcomes)].before

\* the month k months after the month of the day now
MonthAfter(now, k) == NormalDate(now.y, now.m + k, 1)

\* C27: after a run, an event exists for every month from the current one
\* to the one twelve months ahead that is not excluded and has the
\* requested nth weekday: no such month is skipped.
C27_NoMonthSkipped ==
    (EventsReturned /\ \A k \in 1..Len(ret.v.outcomes) : ~ret.v.outcomes[k].failed)
    => \A k \in 0..MonthsAhead :
          LET month == MonthAfter(arg.start, k)
              date == getNthWeekdayOfMonth(arg.firstDay, month.y, month.m,
                                           arg.weekday, arg.ordinal)
          IN (month.m \notin arg.excluded /\ date # JNull)
             => \E e \in 1..Len(ret.v.db) : ret.v.db[e].date = date

(***************************************************************************)
(* populateHelperDatabase of the shopping workflow                         *)
(***************************************************************************)
IngredientNames == {"milk", "Milk", "rice"}

\* String.toLowerCase on the names
toLowerCase(name) == IF name = "Milk" THEN "milk" ELSE name

\* the upcoming meals: meal k has the id k
MealLists ==
    UNION {[1..n -> UNION {[1..len -> IngredientNames] :
                              len \in 0..MaxIngredients}] :
           n \in 0..MaxMeals}

\* the helper items: mealId 0 is no relation, an id above MaxMeals a meal
\* that is no longer upcoming; old is created more than seven days ago
HelperItems ==
    [item : IngredientNames, checkedForAnyList : BOOLEAN, delete : BOOLEAN,
     mealId : 0..(MaxMeals + 1), old : BOOLEAN]

HelperLists ==
    UNION {[1..n -> HelperItems] : n \in 0..MaxHelperItems}

\* shouldDelete of the first loop
shouldDelete(mealLists, item) ==
    \/ item.mealId # 0 /\ item.mealId \notin 1..Len(mealLists)
    \/ item.old /\ ~item.checkedForAnyList
    \/ item.delete /\ item.old

\* the set existingItemNames, built before the first loop
existingItemNames(mealLists, existingItems) ==
    {toLowerCase(existingItems[k].item) : k \in 1..Len(existingItems)}

\* the ingredients of the meals in order, each with its meal
RECURSIVE IngredientsFrom(_, _, _)
IngredientsFrom(mealLists, m, k) ==
    IF m > Len(mealLists) THEN << >>
    ELSE IF k > Len(mealLists[m]) THEN IngredientsFrom(mealLists, m + 1, 1)
    ELSE << [meal |-> m, ingredient |-> mealLists[m][k]] >>
         \o IngredientsFrom(mealLists, m, k + 1)

\* the set upcomingIngredients
upcomingIngredients(mealLists) ==
    {toLowerCase(IngredientsFrom(mealLists, 1, 1)[x].ingredient) :
        x \in 1..Len(IngredientsFrom(mealLists, 1, 1))}

\* the map ingredientsToAdd: the first entry of every name that is
\* neither an existing item name nor already in the map
RECURSIVE ingredientsToAdd(_, _, _, _)
ingredientsToAdd(entries, k, known, added) ==
    IF k > Len(entries) THEN added
    ELSE LET normalizedIngredient == toLowerCase(entries[k].ingredient)
         IN IF normalizedIngredient \in known
            THEN ingredientsToAdd(entries, k + 1, known, added)
            ELSE ingredientsToAdd(entries, k + 1,
                                  known \cup {normalizedIngredient},
                                  Append(added, entries[k]))

\* populateHelperDatabase: the items archived, the items whose Delete box
\* is unchecked, the items created
populateHelperDatabase(mealLists, existingItems) ==
    [archived |-> {k \in 1..Len(existingItems) :
                     shouldDelete(mealLists, existingItems[k])},
     resurrected |-> {k \in 1..Len(existingItems) :
                        /\ existingItems[k].delete
                        /\ toLowerCase(existingItems[k].item)
                             \in upcomingIngredients(mealLists)},
     created |-> ingredientsToAdd(IngredientsFrom(mealLists, 1, 1), 1,
                                  existingItemNames(mealLists, existingItems),
                                  << >>)]

InitHelper ==
    /\ IdleWorkflow
    /\ films = NoFilms
    /\ traversal = NoTraversal
    /\ fn = "populateHelperDatabase"
    /\ arg \in [meals : MealLists, existingItems : HelperLists]
    /\ ret = NoRet

CallPopulateHelper ==
    /\ fn = "populateHelperDatabase"
    /\ ret = NoRet
    /\ ret' = Returned(populateHelperDatabase(arg.meals, arg.existingItems))
    /\ UNCHANGED << wfVars, fn, arg, films, traversal >>

NextHelper == CallPopulateHelper

SpecHelper == InitHelper /\ [][NextHelper]_vars

\* the lower-case names of the helper items after the run that the run did
\* not archive
HelperNamesAfter ==
    {toLowerCase(arg.existingItems[k].item) :
        k \in (1..Len(arg.existingItems)) \ ret.v.archived}
    \cup {toLowerCase(ret.v.created[k].ingredient) :
            k \in 1..Len(ret.v.created)}

\* C28: after populateHelperDatabase completes, every ingredient of every
\* upcoming meal has a helper item of that name, compared without case,
\* that was not archived during the run.
C28_EveryIngredientHasAnItem ==
    (fn = "populateHelperDatabase" /\ ret # NoRet)
    => \A m \in 1..Len(arg.meals) : \A k \in 1..Len(arg.meals[m]) :
          toLowerCase(arg.meals[m][k]) \in HelperNamesAfter

(***************************************************************************)
(* The meal planner: run of manage-meal-planner                            *)
(***************************************************************************)
MEAL_PLANNER_WINDOW_DAYS == 28

\* A date of the planner is the number of its day in the year, 1 January
\* being day 1; an ISO date string is modelled by the day it names, so
\* that the order of the strings is the order of the numbers.

\* date.getMonth() and date.getDate() of the day d, counted from month
RECURSIVE MonthAndDate(_, _)
MonthAndDate(d, month) ==
    IF d <= MonthLen(month) THEN [month |-> month, dateNum |-> d]
    ELSE MonthAndDate(d - MonthLen(month), month + 1)

\* formatDayName: day of the week, day of the month, month, all local
formatDayName(d) ==
    [day |-> d % 7, dateNum |-> MonthAndDate(d, 0).dateNum,
     month |-> MonthAndDate(d, 0).month]

\* toISODate of a local midnight: date.toISOString().split("T")[0] is the
\* day in UTC, the previous day in a zone ahead of UTC
toISODate(zone, d) == IF zone = "ahead" THEN d - 1 ELSE d

\* new Date(day.date + "T00:00:00"): the string is read as local time
LocalDate(isoDate) == isoDate

\* deleteOldPages: the pages whose date is before today
deleteOldPages(existingDays, today) ==
    {k \in DOMAIN existingDays :
        ~existingDays[k].archived /\ existingDays[k].date < today}

\* createMissingPages: the pages created for the target dates from k on
RECURSIVE createMissingPages(_, _, _, _)
createMissingPages(zone, existingDateSet, startDate, k) ==
    IF k >= MEAL_PLANNER_WINDOW_DAYS THEN << >>
    ELSE LET date == startDate + k
             isoDate == toISODate(zone, date)
         IN (IF isoDate \notin existingDateSet
             THEN << [name |-> formatDayName(date), date |-> isoDate,
                      archived |-> FALSE] >>
             ELSE << >>)
            \o createMissingPages(zone, existingDateSet, startDate, k + 1)

\* updatePageNames: the pages whose name is not the name of their date
updatePageNames(db, remainingDays) ==
    {k \in remainingDays : db[k].name # formatDayName(LocalDate(db[k].date))}

\* run: db is the database, page k having the id k; getAllPages returns
\* the pages that are not archived
RunPlanner(zone, db, today) ==
    LET existingDays == {k \in DOMAIN db : ~db[k].archived}
        deleted == deleteOldPages(db, toISODate(zone, today))
        remainingDays == {k \in existingDays :
                             db[k].date >= toISODate(zone, today)}
        created == createMissingPages(zone,
                                      {db[k].date : k \in remainingDays},
                                      today, 0)
        updated == updatePageNames(db, remainingDays)
    IN [deleted |-> deleted, created |-> created, updated |-> updated,
        db |-> [k \in DOMAIN db |->
                   IF k \in deleted THEN [db[k] EXCEPT !.archived = TRUE]
                   ELSE IF k \in updated
                   THEN [db[k] EXCEPT
                            !.name = formatDayName(LocalDate(db[k].date))]
                   ELSE db[k]] \o created]

\* MaxRuns runs one after the other on the same day
RECURSIVE PlannerRuns(_, _, _, _)
PlannerRuns(zone, db, today, k) ==
    IF k > MaxRuns THEN << >>
    ELSE << RunPlanner(zone, db, today) >>
         \o PlannerRuns(zone, RunPlanner(zone, db, today).db, today, k + 1)

\* the days on which the runs are started
PlannerToday == {20, 40}

\* a name that is no day name
OtherName == [day |-> 0, dateNum |-> 0, month |-> 0]

PlannerPages(today) ==
    [name : {formatDayName(d) : d \in (today - 2)..(today + 1)}
            \cup {OtherName},
     date : (today - 2)..(today + 1), archived : {FALSE}]

InitPlanner ==
    /\ IdleWorkflow
    /\ films = NoFilms
    /\ traversal = NoTraversal
    /\ fn = "manage-meal-planner"
    /\ \E today \in PlannerToday, zone \in {"behind", "ahead"} :
          \E n \in 0..MaxDays : \E db \in [1..n -> PlannerPages(today)] :
             arg = [today |-> today, zone |-> zone, db |-> db]
    /\ ret = NoRet

CallPlannerRuns ==
    /\ fn = "manage-meal-planner"
    /\ ret = NoRet
    /\ ret' = Returned(PlannerRuns(arg.zone, arg.db, arg.today, 1))
    /\ UNCHANGED << wfVars, fn, arg, films, traversal >>

NextPlanner == CallPlannerRuns

SpecPlanner == InitPlanner /\ [][NextPlanner]_vars

PlannerReturned == fn = "manage-meal-planner" /\ ret # NoRet

\* C29: a meal-planner run repeated on the same day right after a completed
\* run is a no-op: it archives no page, creates no page, each of the 28
\* target dates starting today having a page already, and renames no page.
C29_SecondRunIsNoOp ==
    PlannerReturned
    => \A k \in 2..MaxRuns :
          /\ ret.v[k].deleted = {}
          /\ ret.v[k].created = << >>
          /\ ret.v[k].updated = {}
          /\ ret.v[k].db = ret.v[k - 1].db
          /\ \A j \in 0..(MEAL_PLANNER_WINDOW_DAYS - 1) :
                \E p \in DOMAIN ret.v[k - 1].db :
                   /\ ~ret.v[k - 1].db[p].archived
                   /\ ret.v[k - 1].db[p].date
                        = toISODate(arg.zone, arg.today + j)

(***************************************************************************)
(* The score fields of the films and TV workflow                           *)
(***************************************************************************)
\* A number property or a rating is the empty sequence when it is null
\* and the sequence of its number otherwise.
null == << >>

ScoreFields == {"IMDB Score", "Tomatometer (Raw)", "Metascore"}

\* the key of OMDBResult that feeds the field
OmdbKey(field) ==
    CASE field = "IMDB Score" -> "imdbRating"
      [] field = "Tomatometer (Raw)" -> "tomatometer"
      [] field = "Metascore" -> "metascore"

\* the numbers a page holds and the numbers OMDb supplies
PageNumbers == {null, << 0 >>, << 5 >>}

OmdbNumbers == {null, << 0 >>, << 7 >>}

\* fetchOMDBData: without a key or an id every rating is null
fetchOMDBData(imdbId, answer) ==
    IF ~imdbId THEN [k \in {OmdbKey(f) : f \in ScoreFields} |-> null]
    ELSE answer

\* the truth value JavaScript gives a rating: null and 0 are falsy
Truthy(rating) == rating # null /\ rating # << 0 >>

\* hasImdbScore, hasTomatometer and hasMetascore as the source computes
\* them: the first two with != null, the third with == null
hasScore(page, field) ==
    IF field = "Metascore" THEN page[field] = null ELSE page[field] # null

\* the score entries of additionalUpdates
scoreUpdates(page, imdbIdToUse, answer) ==
    IF ~imdbIdToUse THEN << >>
    ELSE LET omdbData == fetchOMDBData(imdbIdToUse, answer)
         IN [f \in {g \in ScoreFields :
                       ~hasScore(page, g) /\ Truthy(omdbData[OmdbKey(g)])}
               |-> omdbData[OmdbKey(f)]]

InitScores ==
    /\ IdleWorkflow
    /\ films = NoFilms
    /\ traversal = NoTraversal
    /\ fn = "scoreUpdates"
    /\ arg \in [page : [ScoreFields -> PageNumbers],
                 imdbIdToUse : BOOLEAN,
                 answer : [{OmdbKey(f) : f \in ScoreFields} -> OmdbNumbers]]
    /\ ret = NoRet

CallScoreUpdates ==
    /\ fn = "scoreUpdates"
    /\ ret = NoRet
    /\ ret' = Returned(scoreUpdates(arg.page, arg.imdbIdToUse, arg.answer))
    /\ UNCHANGED << wfVars, fn, arg, films, traversal >>

NextScores == CallScoreUpdates

SpecScores == InitScores /\ [][NextScores]_vars

\* the rating the source supplies for the field
Supplied(field) ==
    fetchOMDBData(arg.imdbIdToUse, arg.answer)[OmdbKey(field)]

\* C30: each of the score fields IMDB Score, Tomatometer and Metascore is
\* written for a page exactly when the field is empty on the page and the
\* ratings source supplies a value for it; a field that already holds a
\* value is never overwritten.
C30_ScoreWrittenIffEmpty ==
    (fn = "scoreUpdates" /\ ret # NoRet)
    => \A f \in ScoreFields :
          /\ f \in DOMAIN ret.v
                <=> (arg.page[f] = null /\ Supplied(f) # null)
          /\ arg.page[f] # null => f \notin DOMAIN ret.v

====
